---- MODULE Spec2Model ----
(***************************************************************************)
(* Model of the debate arena of validAI:                                   *)
(*   - arena/debate_orchestrator.py : DebateOrchestrator, the debate state *)
(*     machine, its event queue and the streaming consumer;                *)
(*   - research/searcher_working.py : the Brave rate limiter of            *)
(*     WorkingResearchPipeline.                                            *)
(* Confidences and scores are the integers the code computes (every delta  *)
(* is a multiple of 5).  The unit of time is half the limiter's            *)
(* minimum delay.                                                          *)
(***************************************************************************)
EXTENDS Integers, Sequences, FiniteSets, TLC

(***************************************************************************)
(* Bounds of the model.                                                    *)
(***************************************************************************)
\* size of a team handed to the orchestrator (a team is empty or has MaxTeam
\* agents)
MaxTeam == 1
\* threads calling the Brave search function
MaxThreads == 2
\* the clock reading at which the first thread starts; time.time() is far
\* above the minimum delay
StartTime == 2
\* how long after StartTime a thread may still be held up outside a sleep
MaxDawdle == 1
\* search calls made on one pipeline
MaxSearchCalls == 3
\* results one query of the gatherer returns
MaxResults == 1
\* the largest max_sources gather_evidence is called with
MaxSources == 2
\* arguments of one side handed to the judge
MaxArguments == 2

(***************************************************************************)
(* Program constants.                                                      *)
(***************************************************************************)
InitialConfidence == 50
OpeningImpact == 5
evidence_rounds == 3
\* config["max_rounds"] of DebateOrchestrator.__init__
default_max_rounds == 4
ObjectionPenalty == 10
KnockoutThreshold == 10
\* config["objection_threshold"] = 0.7, in hundredths
objection_threshold == 70
dramatic_moment_threshold == 20
RejectedSavings == 2100000
\* self._min_delay_between_calls = 1.1 seconds, in units of time
min_delay_between_calls == 2
\* MAX_EVIDENCE_QUERIES: Brave calls of one search_evidence
max_queries == 2

\* random.randint(1, 4)
Tiers == 1..4
\* random.random() in [0, 1), in hundredths
Draws == 0..99
Effectiveness == {"strong", "moderate", "weak", "evasive"}

\* DebatePhase, in declaration order
DebatePhase ==
    <<"PRE_BATTLE", "OPENING_STATEMENTS", "EVIDENCE_DUEL", "CROSS_EXAMINATION",
      "FINAL_ARGUMENTS", "JUDGMENT", "COMPLETE">>

Teams == {"PRO", "CON"}
Other(team) == IF team = "PRO" THEN "CON" ELSE "PRO"

VARIABLES
    \* DebateState
    phase, round_number, pro_confidence, con_confidence,
    pro_evidence_score, con_evidence_score,
    transcript, evidence_presented, objections, dramatic_moments,
    \* DebateOrchestrator (tier_pool: the tiers _gather_evidence may return)
    pro_agents, con_agents, primary_pro, primary_con,
    enable_special_effects, tier_pool, max_rounds, event_queue,
    \* the analyze_requirement coroutine: position, locals, return value
    pc, suspended, turn, round_i, evidence, verdict, result,
    \* observation of _emit_event: number of events emitted, the last one,
    \* and the sums of what the emitted evidence/objection events announced
    n_emitted, last_event, emitted_impact, emitted_objections,
    \* analyze_requirement_streaming: position and the events it yielded
    cpc, yielded,
    \* WorkingResearchPipeline instances and their calling threads
    now, pipeline_of, last_brave_call, rate_lock, tpc, current_time, wake_at,
    calls_left, brave_calls,
    \* WorkingResearchPipeline: its search tools and its search calls so far
    search_tools, brave_available, api_call_count, search_calls,
    \* EvidenceGatherer.gather_evidence: position, argument, locals, the
    \* list returned, and the results of the queries that did not fail
    gpc, max_sources, queries_issued, queries_failed, all_evidence,
    ranked_evidence, results_found,
    \* JudgeAgent: position, personality, the arguments handed to
    \* render_verdict, its locals and the Verdict it returns
    jpc, personality, pro_arguments, con_arguments, scores, final_score,
    critical_issues, judge_verdict,
    \* EvidenceScorer.compare_evidence and EvidenceValidator.validate_evidence:
    \* position, the Evidence arguments, and what each returns
    epc, evidence1, evidence2, comparison, validation

stateVars == <<phase, round_number, pro_confidence, con_confidence,
               pro_evidence_score, con_evidence_score,
               transcript, evidence_presented, objections, dramatic_moments>>
teamVars == <<pro_agents, con_agents, primary_pro, primary_con>>
emitVars == <<event_queue, n_emitted, last_event, suspended>>
ghostVars == <<emitted_impact, emitted_objections>>
localVars == <<turn, round_i, evidence, verdict, result>>
streamVars == <<cpc, yielded>>
rateVars == <<now, pipeline_of, last_brave_call, rate_lock, tpc,
              current_time, wake_at, calls_left, brave_calls>>
configVars == <<enable_special_effects, tier_pool, max_rounds>>
debateVars == <<stateVars, teamVars, configVars, emitVars,
                ghostVars, localVars, pc>>
searchVars == <<search_tools, brave_available, api_call_count, search_calls>>
gatherVars == <<gpc, max_sources, queries_issued, queries_failed,
                all_evidence, ranked_evidence, results_found>>
judgeVars == <<jpc, personality, pro_arguments, con_arguments, scores,
               final_score, critical_issues, judge_verdict>>
evalVars == <<epc, evidence1, evidence2, comparison, validation>>
serviceVars == <<searchVars, gatherVars, judgeVars, evalVars>>
otherVars == <<streamVars, rateVars, serviceVars>>
vars == <<debateVars, streamVars, rateVars, serviceVars>>

Confidence(team) == IF team = "PRO" THEN pro_confidence ELSE con_confidence
EvidenceScore(team) ==
    IF team = "PRO" THEN pro_evidence_score ELSE con_evidence_score
Primary(team) == IF team = "PRO" THEN primary_pro ELSE primary_con

\* agent.role of the k-th agent of a team
Role(team, k) == <<team, k>>

(***************************************************************************)
(* _emit_event: the event is put on the (unbounded) asyncio.Queue; nothing *)
(* is appended to state.transcript.  With enable_special_effects the       *)
(* coroutine then sleeps, which is a suspension point.                     *)
(***************************************************************************)
DebateEvent(event_type, agent, content, importance) ==
    [event_type |-> event_type, agent |-> agent, content |-> content,
     importance |-> importance]


\* variant: a bounded queue, asyncio.Queue(maxsize=2), whose put waits while
\* the queue is full
QueuePutReadyBounded(queue) == Len(queue) < 2

\* asyncio.Queue() has maxsize 0: put never waits
QueuePutReady(queue) == TRUE

\* await self.event_queue.put(event.__dict__): events are numbered in the
\* order of emission, and the queue holds the numbers
PutEvent(event) ==
    /\ QueuePutReady(event_queue)
    /\ n_emitted' = n_emitted + 1
    /\ event_queue' = Append(event_queue, n_emitted + 1)
    /\ last_event' = event
    /\ UNCHANGED transcript

EmitEvent(event) ==
    /\ PutEvent(event)
    /\ suspended' = enable_special_effects

\* an _emit_event that the caller follows by an asyncio.sleep of its own
EmitEventThenSleep(event) ==
    /\ PutEvent(event)
    /\ suspended' = TRUE

ConfidenceUpdate(pro, con) ==
    DebateEvent("confidence_update", "system",
                [pro_confidence |-> pro, con_confidence |-> con], 1)

(***************************************************************************)
(* DebateOrchestrator.__init__ / DebateState(), before analyze_requirement *)
(* has run.                                                                *)
(***************************************************************************)
NoEvent == DebateEvent("none", "system", [message |-> "none"], 0)
NoVerdict == [decision |-> "none", confidence |-> 0, savings |-> 0]
NoResult == [returned |-> FALSE]

InitDebateState ==
    /\ phase = "PRE_BATTLE"
    /\ round_number = 0
    /\ pro_confidence = InitialConfidence
    /\ con_confidence = InitialConfidence
    /\ pro_evidence_score = 0
    /\ con_evidence_score = 0
    /\ transcript = <<>>
    /\ evidence_presented = <<>>
    /\ objections = <<>>
    /\ dramatic_moments = <<>>

InitOrchestrator ==
    /\ InitDebateState
    /\ pro_agents \in {{}, 1..MaxTeam}
    /\ con_agents \in {{}, 1..MaxTeam}
    /\ primary_pro = 0
    /\ primary_con = 0
    /\ enable_special_effects \in BOOLEAN
    /\ tier_pool = Tiers
    /\ max_rounds = default_max_rounds
    /\ event_queue = <<>>
    /\ n_emitted = 0
    /\ last_event = NoEvent
    /\ emitted_impact = [t \in Teams |-> 0]
    /\ emitted_objections = [t \in Teams |-> 0]
    /\ pc = "start"
    /\ suspended = TRUE
    /\ turn = "PRO"
    /\ round_i = 0
    /\ evidence = 0
    /\ verdict = NoVerdict
    /\ result = NoResult

InitStreamIdle ==
    /\ cpc = "idle"
    /\ yielded = <<>>

(***************************************************************************)
(* analyze_requirement, one action per stretch of code that ends in an     *)
(* _emit_event (or in the coroutine's return).                             *)
(***************************************************************************)

\* _initialize_debate, up to the first event
InitializeDebate ==
    /\ UNCHANGED otherVars
    /\ pc = "start"
    /\ phase' = "PRE_BATTLE"
    /\ EmitEventThenSleep(DebateEvent("phase_change", "system",
           [phase |-> "pre_battle"], 1))
    /\ pc' = "select"
    /\ UNCHANGED <<round_number, pro_confidence, con_confidence,
                   pro_evidence_score, con_evidence_score, evidence_presented,
                   objections, dramatic_moments, teamVars,
                   configVars, ghostVars, localVars>>

\* _initialize_debate after asyncio.sleep: random.choice of the two speakers;
\* random.choice of an empty list raises IndexError out of analyze_requirement
SelectChampions ==
    /\ UNCHANGED otherVars
    /\ pc = "select"
    /\ IF pro_agents = {} \/ con_agents = {}
       THEN /\ pc' = "aborted"
            /\ suspended' = TRUE
            /\ UNCHANGED <<primary_pro, primary_con, event_queue, n_emitted,
                           last_event>>
       ELSE \E p \in pro_agents, c \in con_agents :
              /\ primary_pro' = p
              /\ primary_con' = c
              /\ EmitEvent(DebateEvent("agent_selection", "system",
                     [pro_speaker |-> Role("PRO", p),
                      con_speaker |-> Role("CON", c)], 3))
              /\ pc' = "opening_statements"
    /\ UNCHANGED <<stateVars, pro_agents, con_agents, configVars,
                   ghostVars, localVars>>

\* _run_opening_statements, up to the phase_change event
RunOpeningStatements ==
    /\ UNCHANGED otherVars
    /\ pc = "opening_statements"
    /\ phase' = "OPENING_STATEMENTS"
    /\ round_number' = 1
    /\ EmitEvent(DebateEvent("phase_change", "system",
           [phase |-> "opening_statements", round |-> 1], 1))
    /\ turn' = "PRO"
    /\ pc' = "opening_speak"
    /\ UNCHANGED <<pro_confidence, con_confidence, pro_evidence_score,
                   con_evidence_score, evidence_presented, objections,
                   dramatic_moments, teamVars, configVars,
                   ghostVars, round_i, evidence, verdict, result>>

\* the opening argument of one team
OpeningSpeaks ==
    /\ UNCHANGED otherVars
    /\ pc = "opening_speak"
    /\ EmitEvent(DebateEvent("agent_speaks", Role(turn, Primary(turn)),
           [team |-> turn, confidence_impact |-> OpeningImpact], 1))
    /\ pc' = "opening_confidence"
    /\ UNCHANGED <<phase, round_number, pro_confidence, con_confidence,
                   pro_evidence_score, con_evidence_score, evidence_presented,
                   objections, dramatic_moments, teamVars,
                   configVars, ghostVars, localVars>>

\* self.state.<team>_confidence += 5; await self._update_confidence()
OpeningConfidence ==
    /\ UNCHANGED otherVars
    /\ pc = "opening_confidence"
    /\ pro_confidence' = IF turn = "PRO" THEN pro_confidence + OpeningImpact
                         ELSE pro_confidence
    /\ con_confidence' = IF turn = "CON" THEN con_confidence + OpeningImpact
                         ELSE con_confidence
    /\ EmitEvent(ConfidenceUpdate(pro_confidence', con_confidence'))
    /\ IF turn = "PRO"
       THEN turn' = "CON" /\ pc' = "opening_speak"
       ELSE turn' = "PRO" /\ pc' = "evidence_duel"
    /\ UNCHANGED <<phase, round_number, pro_evidence_score, con_evidence_score,
                   evidence_presented, objections, dramatic_moments, teamVars,
                   configVars, ghostVars, round_i, evidence,
                   verdict, result>>

\* _run_evidence_duel, up to the phase_change event
RunEvidenceDuel ==
    /\ UNCHANGED otherVars
    /\ pc = "evidence_duel"
    /\ phase' = "EVIDENCE_DUEL"
    /\ round_number' = 2
    /\ EmitEvent(DebateEvent("phase_change", "system",
           [phase |-> "evidence_duel", round |-> 2], 4))
    /\ turn' = "PRO"
    /\ round_i' = 0
    /\ pc' = "present"
    /\ UNCHANGED <<pro_confidence, con_confidence, pro_evidence_score,
                   con_evidence_score, evidence_presented, objections,
                   dramatic_moments, teamVars, configVars,
                   ghostVars, evidence, verdict, result>>

\* variant: the impact grows with the tier number
ImpactByTierNumber(tier) == tier * 5

\* impact = (5 - evidence["tier"]) * 5
Impact(tier) == (5 - tier) * 5

Min(a, b) == IF a < b THEN a ELSE b

\* _gather_evidence and _present_evidence, up to the evidence_presented
\* event; state.evidence_presented is not appended to
PresentEvidence ==
    /\ UNCHANGED otherVars
    /\ pc = "present"
    /\ \E tier \in tier_pool :
         /\ evidence' = tier
         /\ EmitEvent(DebateEvent("evidence_presented",
                Role(turn, Primary(turn)),
                [tier |-> tier, team |-> turn, impact |-> Impact(tier)],
                Min(5, 6 - tier)))
         /\ emitted_impact' =
                [emitted_impact EXCEPT ![turn] = @ + Impact(tier)]
    /\ pc' = "apply_evidence"
    /\ UNCHANGED <<phase, round_number, pro_confidence, con_confidence,
                   pro_evidence_score, con_evidence_score, evidence_presented,
                   objections, dramatic_moments, teamVars,
                   configVars, emitted_objections, turn, round_i,
                   verdict, result>>

\* _present_evidence after the event: confidence and evidence score of the
\* presenting team, then _update_confidence
ApplyEvidence ==
    /\ UNCHANGED otherVars
    /\ pc = "apply_evidence"
    /\ IF turn = "PRO"
       THEN /\ pro_confidence' = pro_confidence + Impact(evidence)
            /\ pro_evidence_score' = pro_evidence_score + Impact(evidence)
            /\ UNCHANGED <<con_confidence, con_evidence_score>>
       ELSE /\ con_confidence' = con_confidence + Impact(evidence)
            /\ con_evidence_score' = con_evidence_score + Impact(evidence)
            /\ UNCHANGED <<pro_confidence, pro_evidence_score>>
    /\ EmitEvent(ConfidenceUpdate(pro_confidence', con_confidence'))
    /\ pc' = "objection"
    /\ UNCHANGED <<phase, round_number, evidence_presented, objections,
                   dramatic_moments, teamVars, configVars,
                   ghostVars, localVars>>

\* where _run_evidence_duel goes after one team's presentation is over
AfterPresentation ==
    IF turn = "PRO"
    THEN turn' = "CON" /\ pc' = "present"
    ELSE turn' = "CON" /\ pc' = "dramatic"

\* if random.random() > self.config["objection_threshold"]: return
ObjectionDeclined(draw) == draw > objection_threshold

\* `if evidence["tier"] >= 3` of _run_evidence_duel, and _attempt_objection
\* up to the objection_raised event (the objector is the other team);
\* state.objections is not appended to
AttemptObjection ==
    /\ UNCHANGED otherVars
    /\ pc = "objection"
    /\ \/ /\ evidence >= 3
          /\ \E draw \in Draws : ~ObjectionDeclined(draw)
          /\ EmitEvent(DebateEvent("objection_raised",
                 Role(Other(turn), Primary(Other(turn))),
                 [objection |-> "OBJECTION!", target_tier |-> evidence,
                  team |-> Other(turn)], 4))
          /\ emitted_objections' = [emitted_objections EXCEPT ![turn] = @ + 1]
          /\ pc' = "objection_penalty"
          /\ UNCHANGED turn
       \/ /\ \/ evidence < 3
             \/ evidence >= 3 /\ \E draw \in Draws : ObjectionDeclined(draw)
          /\ AfterPresentation
          /\ suspended' = FALSE
          /\ UNCHANGED <<event_queue, n_emitted, last_event,
                         emitted_objections>>
    /\ UNCHANGED <<stateVars, teamVars, configVars, emitted_impact,
                   round_i, evidence, verdict, result>>

\* variant: the penalty falls on the objecting team
ApplyObjectionToObjector ==
    /\ UNCHANGED otherVars
    /\ pc = "objection_penalty"
    /\ IF Other(turn) = "PRO"
       THEN /\ pro_confidence' = pro_confidence - ObjectionPenalty
            /\ UNCHANGED con_confidence
       ELSE /\ con_confidence' = con_confidence - ObjectionPenalty
            /\ UNCHANGED pro_confidence
    /\ EmitEvent(ConfidenceUpdate(pro_confidence', con_confidence'))
    /\ AfterPresentation
    /\ UNCHANGED <<phase, round_number, pro_evidence_score, con_evidence_score,
                   evidence_presented, objections, dramatic_moments, teamVars,
                   configVars, ghostVars, round_i, evidence,
                   verdict, result>>

\* variant: an objection costs the presenting team twice the penalty
ApplyObjectionTwice ==
    /\ UNCHANGED otherVars
    /\ pc = "objection_penalty"
    /\ IF Other(turn) = "PRO"
       THEN /\ con_confidence' = con_confidence - 2 * ObjectionPenalty
            /\ UNCHANGED pro_confidence
       ELSE /\ pro_confidence' = pro_confidence - 2 * ObjectionPenalty
            /\ UNCHANGED con_confidence
    /\ EmitEvent(ConfidenceUpdate(pro_confidence', con_confidence'))
    /\ AfterPresentation
    /\ UNCHANGED <<phase, round_number, pro_evidence_score, con_evidence_score,
                   evidence_presented, objections, dramatic_moments, teamVars,
                   configVars, ghostVars, round_i, evidence,
                   verdict, result>>

\* _attempt_objection after the event: the objecting team being `team`,
\* the other (presenting) team loses 10; then _update_confidence
ApplyObjection ==
    /\ UNCHANGED otherVars
    /\ pc = "objection_penalty"
    /\ IF Other(turn) = "PRO"
       THEN /\ con_confidence' = con_confidence - ObjectionPenalty
            /\ UNCHANGED pro_confidence
       ELSE /\ pro_confidence' = pro_confidence - ObjectionPenalty
            /\ UNCHANGED con_confidence
    /\ EmitEvent(ConfidenceUpdate(pro_confidence', con_confidence'))
    /\ AfterPresentation
    /\ UNCHANGED <<phase, round_number, pro_evidence_score, con_evidence_score,
                   evidence_presented, objections, dramatic_moments, teamVars,
                   configVars, ghostVars, round_i, evidence,
                   verdict, result>>

Abs(x) == IF x < 0 THEN -x ELSE x

\* the next sub-round of the `for i in range(evidence_rounds)` loop, or the
\* end of _run_evidence_duel
NextEvidenceRound ==
    IF round_i + 1 < evidence_rounds
    THEN round_i' = round_i + 1 /\ turn' = "PRO" /\ evidence' = evidence
         /\ pc' = "present"
    ELSE round_i' = 0 /\ turn' = "PRO" /\ evidence' = 0
         /\ pc' = "cross_examination"

\* variant: a gap that equals the threshold counts as dramatic
IsDramaticAtThreshold(pro, con) ==
    Abs(pro - con) >= dramatic_moment_threshold

\* confidence_diff > self.config["dramatic_moment_threshold"]
IsDramatic(pro, con) == Abs(pro - con) > dramatic_moment_threshold

LeadingTeam(pro, con) == IF pro > con THEN "PRO" ELSE "CON"

\* _check_dramatic_moment up to the dramatic_moment event, or through when
\* the gap is not dramatic
CheckDramaticMoment ==
    /\ UNCHANGED otherVars
    /\ pc = "dramatic"
    /\ IF IsDramatic(pro_confidence, con_confidence)
       THEN /\ EmitEvent(DebateEvent("dramatic_moment", "system",
                   [type |-> "momentum_shift",
                    leading_team |-> LeadingTeam(pro_confidence, con_confidence),
                    confidence_gap |-> Abs(pro_confidence - con_confidence)], 4))
            /\ pc' = "record_dramatic"
            /\ UNCHANGED <<turn, round_i, evidence>>
       ELSE /\ NextEvidenceRound
            /\ suspended' = FALSE
            /\ UNCHANGED <<event_queue, n_emitted, last_event>>
    /\ UNCHANGED <<stateVars, teamVars, configVars, ghostVars,
                   verdict, result>>

\* _check_dramatic_moment after the event: state.dramatic_moments.append
RecordDramaticMoment ==
    /\ UNCHANGED otherVars
    /\ pc = "record_dramatic"
    /\ dramatic_moments' = Append(dramatic_moments,
           [round |-> round_number, type |-> "momentum_shift",
            details |-> LeadingTeam(pro_confidence, con_confidence)])
    /\ NextEvidenceRound
    /\ suspended' = FALSE
    /\ UNCHANGED <<phase, round_number, pro_confidence, con_confidence,
                   pro_evidence_score, con_evidence_score, transcript,
                   evidence_presented, objections, teamVars,
                   configVars, event_queue, n_emitted, last_event,
                   ghostVars, verdict, result>>


\* variant: _run_cross_examination without its assignment to state.phase
RunCrossExaminationKeepsPhase ==
    /\ UNCHANGED otherVars
    /\ pc = "cross_examination"
    /\ round_number' = 3
    /\ EmitEvent(DebateEvent("phase_change", "system",
           [phase |-> "cross_examination", round |-> 3], 3))
    /\ turn' = "PRO"
    /\ pc' = "question"
    /\ UNCHANGED <<phase, pro_confidence, con_confidence, pro_evidence_score,
                   con_evidence_score, evidence_presented, objections,
                   dramatic_moments, teamVars, configVars,
                   ghostVars, round_i, evidence, verdict, result>>

\* _run_cross_examination, up to the phase_change event
RunCrossExamination ==
    /\ UNCHANGED otherVars
    /\ pc = "cross_examination"
    /\ phase' = "CROSS_EXAMINATION"
    /\ round_number' = 3
    /\ EmitEvent(DebateEvent("phase_change", "system",
           [phase |-> "cross_examination", round |-> 3], 3))
    /\ turn' = "PRO"
    /\ pc' = "question"
    /\ UNCHANGED <<pro_confidence, con_confidence, pro_evidence_score,
                   con_evidence_score, evidence_presented, objections,
                   dramatic_moments, teamVars, configVars,
                   ghostVars, round_i, evidence, verdict, result>>

\* the critical_question of the questioning team
CriticalQuestion ==
    /\ UNCHANGED otherVars
    /\ pc = "question"
    /\ EmitEvent(DebateEvent("critical_question", Role(turn, Primary(turn)),
           [target |-> Role(Other(turn), Primary(Other(turn)))], 1))
    /\ pc' = "response"
    /\ UNCHANGED <<stateVars, teamVars, configVars, ghostVars,
                   localVars>>

\* variant: a weak or evasive response costs the responding team confidence
QuestionResponseFeedsBack ==
    /\ UNCHANGED otherVars
    /\ pc = "response"
    /\ \E effectiveness \in Effectiveness :
         /\ EmitEvent(DebateEvent("question_response",
                Role(Other(turn), Primary(Other(turn))),
                [effectiveness |-> effectiveness], 1))
         /\ IF effectiveness \in {"weak", "evasive"}
            THEN IF turn = "PRO"
                 THEN /\ con_confidence' = con_confidence - OpeningImpact
                      /\ UNCHANGED pro_confidence
                 ELSE /\ pro_confidence' = pro_confidence - OpeningImpact
                      /\ UNCHANGED con_confidence
            ELSE UNCHANGED <<pro_confidence, con_confidence>>
    /\ IF turn = "PRO"
       THEN turn' = "CON" /\ pc' = "question"
       ELSE turn' = "PRO" /\ pc' = "final_arguments"
    /\ UNCHANGED <<phase, round_number, pro_evidence_score, con_evidence_score,
                   transcript, evidence_presented, objections,
                   dramatic_moments, teamVars, configVars, ghostVars,
                   round_i, evidence, verdict, result>>

\* the question_response of the questioned team, classified by
\* _evaluate_response (random.choice)
QuestionResponse ==
    /\ UNCHANGED otherVars
    /\ pc = "response"
    /\ \E effectiveness \in Effectiveness :
         EmitEvent(DebateEvent("question_response",
             Role(Other(turn), Primary(Other(turn))),
             [effectiveness |-> effectiveness], 1))
    /\ IF turn = "PRO"
       THEN turn' = "CON" /\ pc' = "question"
       ELSE turn' = "PRO" /\ pc' = "final_arguments"
    /\ UNCHANGED <<stateVars, teamVars, configVars, ghostVars,
                   round_i, evidence, verdict, result>>

\* _run_final_arguments, up to the phase_change event
RunFinalArguments ==
    /\ UNCHANGED otherVars
    /\ pc = "final_arguments"
    /\ phase' = "FINAL_ARGUMENTS"
    /\ round_number' = 4
    /\ EmitEvent(DebateEvent("phase_change", "system",
           [phase |-> "final_arguments", round |-> 4], 4))
    /\ turn' = "PRO"
    /\ pc' = "final_branch"
    /\ UNCHANGED <<pro_confidence, con_confidence, pro_evidence_score,
                   con_evidence_score, evidence_presented, objections,
                   dramatic_moments, teamVars, configVars,
                   ghostVars, round_i, evidence, verdict, result>>


\* variant: the two knockout tests in the other order
FinalBranchConFirst(pro, con) ==
    IF con < KnockoutThreshold THEN "PRO"
    ELSE IF pro < KnockoutThreshold THEN "CON"
    ELSE "normal"

\* variant: when both are below the threshold the lower confidence loses
FinalBranchLowerLoses(pro, con) ==
    IF pro < KnockoutThreshold /\ (con >= KnockoutThreshold \/ pro <= con)
    THEN "CON"
    ELSE IF con < KnockoutThreshold THEN "PRO"
    ELSE "normal"

\* the if / elif / else of _run_final_arguments
FinalBranch(pro, con) ==
    IF pro < KnockoutThreshold THEN "CON"
    ELSE IF con < KnockoutThreshold THEN "PRO"
    ELSE "normal"

\* _knockout_finish, up to the knockout event
KnockoutFinish ==
    /\ UNCHANGED otherVars
    /\ pc = "final_branch"
    /\ FinalBranch(pro_confidence, con_confidence) # "normal"
    /\ turn' = FinalBranch(pro_confidence, con_confidence)
    /\ EmitEvent(DebateEvent("dramatic_moment", "system",
           [type |-> "knockout", winning_team |-> turn'], 5))
    /\ pc' = "finishing_move"
    /\ UNCHANGED <<stateVars, teamVars, configVars, ghostVars,
                   round_i, evidence, verdict, result>>

\* _knockout_finish after the event: the winner's finishing_move
FinishingMove ==
    /\ UNCHANGED otherVars
    /\ pc = "finishing_move"
    /\ EmitEvent(DebateEvent("finishing_move", Role(turn, Primary(turn)),
           [team |-> turn], 5))
    /\ turn' = "PRO"
    /\ pc' = "judgment"
    /\ UNCHANGED <<stateVars, teamVars, configVars, ghostVars,
                   round_i, evidence, verdict, result>>

\* _normal_final_arguments: one final_argument per team, PRO then CON
NormalFinalArguments ==
    /\ UNCHANGED otherVars
    /\ \/ pc = "final_branch"
          /\ FinalBranch(pro_confidence, con_confidence) = "normal"
          /\ turn = "PRO"
       \/ pc = "final_con" /\ turn = "CON"
    /\ EmitEvent(DebateEvent("final_argument", Role(turn, Primary(turn)),
           [team |-> turn], 1))
    /\ IF turn = "PRO"
       THEN turn' = "CON" /\ pc' = "final_con"
       ELSE turn' = "PRO" /\ pc' = "judgment"
    /\ UNCHANGED <<stateVars, teamVars, configVars, ghostVars,
                   round_i, evidence, verdict, result>>

\* _run_judgment, up to the phase_change event
RunJudgment ==
    /\ UNCHANGED otherVars
    /\ pc = "judgment"
    /\ phase' = "JUDGMENT"
    /\ EmitEventThenSleep(DebateEvent("phase_change", "system",
           [phase |-> "judgment"], 5))
    /\ pc' = "deliberate"
    /\ UNCHANGED <<round_number, pro_confidence, con_confidence,
                   pro_evidence_score, con_evidence_score, evidence_presented,
                   objections, dramatic_moments, teamVars,
                   configVars, ghostVars, localVars>>

\* variant: a tie of the confidences is decided against the requirement
GetJudgeVerdictTieRejects(pro, con) ==
    [decision |-> IF con >= pro THEN "REJECTED" ELSE "APPROVED",
     confidence |-> Abs(con - pro),
     savings |-> IF con >= pro THEN RejectedSavings ELSE 0]

\* _get_judge_verdict
GetJudgeVerdict(pro, con) ==
    [decision |-> IF con > pro THEN "REJECTED" ELSE "APPROVED",
     confidence |-> Abs(con - pro),
     savings |-> IF con > pro THEN RejectedSavings ELSE 0]


\* variant: a verdict without the "reasoning" key, so that building the
\* verdict_rendered event raises KeyError out of analyze_requirement
RenderVerdictRaises ==
    /\ UNCHANGED otherVars
    /\ pc = "deliberate"
    /\ pc' = "aborted"
    /\ UNCHANGED <<stateVars, teamVars, configVars, emitVars, ghostVars,
                   localVars>>

\* _run_judgment after asyncio.sleep: the verdict and its event
RenderVerdict ==
    /\ UNCHANGED otherVars
    /\ pc = "deliberate"
    /\ verdict' = GetJudgeVerdict(pro_confidence, con_confidence)
    /\ EmitEvent(DebateEvent("verdict_rendered", "judge",
           [verdict |-> verdict'.decision, confidence |-> verdict'.confidence,
            savings |-> verdict'.savings], 5))
    /\ pc' = "complete"
    /\ UNCHANGED <<stateVars, teamVars, configVars, ghostVars,
                   turn, round_i, evidence, result>>

\* _compile_results
CompileResults(v) ==
    [returned |-> TRUE,
     verdict |-> v,
     rounds |-> round_number,
     final_confidence |-> [pro |-> pro_confidence, con |-> con_confidence],
     evidence_scores |-> [pro |-> pro_evidence_score,
                          con |-> con_evidence_score],
     dramatic_moments |-> dramatic_moments,
     objections |-> Len(objections),
     transcript |-> transcript,
     evidence |-> evidence_presented]

\* the end of _run_judgment and of analyze_requirement: phase COMPLETE and
\* the compiled result bundle returned
CompleteDebate ==
    /\ UNCHANGED otherVars
    /\ pc = "complete"
    /\ phase' = "COMPLETE"
    /\ result' = CompileResults(verdict)
    /\ pc' = "done"
    /\ suspended' = TRUE
    /\ UNCHANGED <<round_number, pro_confidence, con_confidence,
                   pro_evidence_score, con_evidence_score, transcript,
                   evidence_presented, objections, dramatic_moments, teamVars,
                   configVars, event_queue, n_emitted, last_event,
                   ghostVars, turn, round_i, evidence, verdict>>

(***************************************************************************)
(* One debate, from the construction of the orchestrator.  The knockout    *)
(* branch is left to SpecFinal: no run that starts from a fresh            *)
(* DebateState enables it.                                                 *)
(***************************************************************************)
InitRateIdle ==
    /\ now = 0
    /\ pipeline_of = <<>>
    /\ last_brave_call = <<>>
    /\ rate_lock = <<>>
    /\ tpc = <<>>
    /\ current_time = <<>>
    /\ wake_at = <<>>
    /\ calls_left = <<>>
    /\ brave_calls = <<>>

\* no search call is made
InitSearchIdle ==
    /\ search_tools = {}
    /\ brave_available = TRUE
    /\ api_call_count = 0
    /\ search_calls = <<>>

\* no evidence is being gathered
InitGatherIdle ==
    /\ gpc = "idle"
    /\ max_sources = 0
    /\ queries_issued = 0
    /\ queries_failed = 0
    /\ all_evidence = <<>>
    /\ ranked_evidence = <<>>
    /\ results_found = <<>>

\* no judge is at work
InitJudgeIdle ==
    /\ jpc = "idle"
    /\ personality = "pragmatist"
    /\ pro_arguments = <<>>
    /\ con_arguments = <<>>
    /\ scores = <<>>
    /\ final_score = 0
    /\ critical_issues = <<>>
    /\ judge_verdict = [decision |-> "none", confidence |-> 0]

NoEvidence ==
    [claim |-> <<>>, source |-> "", tier |-> 4, relevance_score |-> 0,
     recency_score |-> 0, credibility_score |-> 0,
     extracted_data |-> [present |-> FALSE, keys |-> {}]]

InitEvalIdle ==
    /\ epc = "idle"
    /\ evidence1 = NoEvidence
    /\ evidence2 = NoEvidence
    /\ comparison = "none"
    /\ validation = [returned |-> FALSE]

InitServicesIdle ==
    /\ InitSearchIdle
    /\ InitGatherIdle
    /\ InitJudgeIdle
    /\ InitEvalIdle

Init ==
    /\ InitOrchestrator
    /\ InitStreamIdle
    /\ InitRateIdle
    /\ InitServicesIdle

Next ==
    \/ InitializeDebate
    \/ SelectChampions
    \/ RunOpeningStatements
    \/ OpeningSpeaks
    \/ OpeningConfidence
    \/ RunEvidenceDuel
    \/ PresentEvidence
    \/ ApplyEvidence
    \/ AttemptObjection
    \/ ApplyObjection
    \/ CheckDramaticMoment
    \/ RecordDramaticMoment
    \/ RunCrossExamination
    \/ CriticalQuestion
    \/ QuestionResponse
    \/ RunFinalArguments
    \/ NormalFinalArguments
    \/ RunJudgment
    \/ RenderVerdict
    \/ CompleteDebate

Spec == Init /\ [][Next]_vars

(***************************************************************************)
(* _run_final_arguments and what follows it, entered with the confidences  *)
(* the method may find in self.state.  analyze_requirement does not reset  *)
(* the DebateState, and the state is a public attribute: confidences below *)
(* the knockout threshold are what a reused orchestrator passes in.        *)
(***************************************************************************)
FinalConfidences == {5 * k : k \in -2..23}

InitFinal ==
    /\ phase = "CROSS_EXAMINATION"
    /\ round_number = 3
    /\ pro_confidence \in FinalConfidences
    /\ con_confidence \in FinalConfidences
    /\ pro_evidence_score = 0
    /\ con_evidence_score = 0
    /\ transcript = <<>>
    /\ evidence_presented = <<>>
    /\ objections = <<>>
    /\ dramatic_moments = <<>>
    /\ pro_agents = 1..MaxTeam
    /\ con_agents = 1..MaxTeam
    /\ primary_pro \in pro_agents
    /\ primary_con \in con_agents
    /\ enable_special_effects \in BOOLEAN
    /\ tier_pool = Tiers
    /\ max_rounds = default_max_rounds
    /\ event_queue = <<>>
    /\ n_emitted = 0
    /\ last_event = NoEvent
    /\ emitted_impact = [t \in Teams |-> 0]
    /\ emitted_objections = [t \in Teams |-> 0]
    /\ pc = "final_arguments"
    /\ suspended = enable_special_effects
    /\ turn = "PRO"
    /\ round_i = 0
    /\ evidence = 0
    /\ verdict = NoVerdict
    /\ result = NoResult
    /\ InitStreamIdle
    /\ InitRateIdle
    /\ InitServicesIdle

NextFinal ==
    \/ RunFinalArguments
    \/ KnockoutFinish
    \/ FinishingMove
    \/ NormalFinalArguments
    \/ RunJudgment
    \/ RenderVerdict
    \/ CompleteDebate

SpecFinal == InitFinal /\ [][NextFinal]_vars

(***************************************************************************)
(* The orchestrator POST /api/analyze builds: the teams of create_pro_team *)
(* and create_con_team, the max_rounds of the requested debate mode, and    *)
(* enable_special_effects switched off.                                    *)
(***************************************************************************)
ModeRounds == [quick |-> 2, standard |-> 4, deep |-> 6]

InitModes ==
    /\ InitDebateState
    /\ pro_agents = 1..MaxTeam
    /\ con_agents = 1..MaxTeam
    /\ primary_pro = 0
    /\ primary_con = 0
    /\ enable_special_effects = FALSE
    /\ tier_pool = Tiers
    /\ max_rounds \in {ModeRounds[m] : m \in DOMAIN ModeRounds}
    /\ event_queue = <<>>
    /\ n_emitted = 0
    /\ last_event = NoEvent
    /\ emitted_impact = [t \in Teams |-> 0]
    /\ emitted_objections = [t \in Teams |-> 0]
    /\ pc = "start"
    /\ suspended = TRUE
    /\ turn = "PRO"
    /\ round_i = 0
    /\ evidence = 0
    /\ verdict = NoVerdict
    /\ result = NoResult
    /\ InitStreamIdle
    /\ InitRateIdle
    /\ InitServicesIdle

SpecModes == InitModes /\ [][Next]_vars

(***************************************************************************)
(* Cancellation of the analyze_requirement task: CancelledError is raised  *)
(* at the await the coroutine is suspended in, and ends it there.          *)
(***************************************************************************)
Cancel ==
    /\ pc \notin {"done", "aborted", "cancelled"}
    /\ suspended
    /\ pc' = "cancelled"
    /\ UNCHANGED <<stateVars, teamVars, configVars, emitVars, ghostVars,
                   localVars, otherVars>>

NextCancel == Next \/ Cancel

SpecCancel == Init /\ [][NextCancel]_vars

(***************************************************************************)
(* analyze_requirement_streaming: the debate runs as a background task and *)
(* the generator drains event_queue while state.phase is not COMPLETE.     *)
(* The generator runs only while the debate task is suspended or over.     *)
(***************************************************************************)
\* the streaming specification keeps to the weakest tier: every presentation
\* opens an objection opportunity, which gives the longest event sequences
StreamTiers == {4}

InitStream ==
    /\ InitDebateState
    /\ pro_agents = 1..MaxTeam
    /\ con_agents = 1..MaxTeam
    /\ primary_pro = 0
    /\ primary_con = 0
    /\ enable_special_effects \in BOOLEAN
    /\ tier_pool = StreamTiers
    /\ max_rounds = default_max_rounds
    /\ event_queue = <<>>
    /\ n_emitted = 0
    /\ last_event = NoEvent
    /\ emitted_impact = [t \in Teams |-> 0]
    /\ emitted_objections = [t \in Teams |-> 0]
    /\ pc = "start"
    /\ suspended = TRUE
    /\ turn = "PRO"
    /\ round_i = 0
    /\ evidence = 0
    /\ verdict = NoVerdict
    /\ result = NoResult
    /\ cpc = "check"
    /\ yielded = <<>>
    /\ InitRateIdle
    /\ InitServicesIdle

ConsumerMayRun == suspended \/ pc \in {"done", "aborted"}


\* variant: the newest item is handed out instead of the oldest
QueueGetNewest(queue) == queue[Len(queue)]

\* the item asyncio.Queue.get hands out, and what stays behind
QueueGet(queue) == Head(queue)
QueueRest(queue) == Tail(queue)

\* the closing {"type": "final_result"} item of the stream
FinalResultItem == 0

\* while self.state.phase != DebatePhase.COMPLETE
StreamCheckPhase ==
    /\ cpc = "check"
    /\ ConsumerMayRun
    /\ cpc' = IF phase # "COMPLETE" THEN "get" ELSE "await_task"
    /\ UNCHANGED <<debateVars, yielded, rateVars, serviceVars>>

\* event = await wait_for(self.event_queue.get(), 1.0); yield event
StreamGet ==
    /\ cpc = "get"
    /\ ConsumerMayRun
    /\ event_queue # <<>>
    /\ yielded' = Append(yielded, QueueGet(event_queue))
    /\ event_queue' = QueueRest(event_queue)
    /\ cpc' = "check"
    /\ UNCHANGED <<stateVars, teamVars, configVars, n_emitted, last_event,
                   suspended, ghostVars, localVars, pc, rateVars,
                   serviceVars>>

\* except asyncio.TimeoutError: continue
StreamTimeout ==
    /\ cpc = "get"
    /\ ConsumerMayRun
    /\ event_queue = <<>>
    /\ cpc' = "check"
    /\ UNCHANGED <<debateVars, yielded, rateVars, serviceVars>>

\* result = await debate_task; yield the final_result item
StreamFinalResult ==
    /\ cpc = "await_task"
    /\ pc = "done"
    /\ yielded' = Append(yielded, FinalResultItem)
    /\ cpc' = "closed"
    /\ UNCHANGED <<debateVars, rateVars, serviceVars>>

\* the caller leaves its `async for` at a yield (run_debate_session: the
\* client is gone); the generator is closed, the debate task is not
ClientDisconnect ==
    /\ cpc = "check"
    /\ Len(yielded) > 0
    /\ cpc' = "closed"
    /\ UNCHANGED <<debateVars, yielded, rateVars, serviceVars>>

NextStream ==
    \/ Next
    \/ StreamCheckPhase
    \/ StreamGet
    \/ StreamTimeout
    \/ StreamFinalResult
    \/ ClientDisconnect

SpecStream == InitStream /\ [][NextStream]_vars

(***************************************************************************)
(* Properties of the debate state machine.                                 *)
(***************************************************************************)
PhaseIndex(p) == CHOOSE k \in 1..Len(DebatePhase) : DebatePhase[k] = p

\* C1: state.phase starts at PRE_BATTLE, every change of it goes to the next
\* phase of the declared order (nothing skipped, repeated or re-entered,
\* COMPLETE never left), and the run that returns has reached COMPLETE.
C1_PhaseOrder ==
    /\ phase = "PRE_BATTLE"
    /\ [][phase' # phase => PhaseIndex(phase') = PhaseIndex(phase) + 1]_vars
    /\ [](pc = "done" => phase = "COMPLETE")

C1_Witness ==
    /\ pc = "done"
    /\ phase = "COMPLETE"
    /\ round_number = 4
    /\ emitted_objections["PRO"] > 0

\* a measure of how far analyze_requirement has come: three per emitted
\* event, plus the position among the steps that emit nothing
Progress ==
    3 * n_emitted
    + CASE pc \in {"select", "objection", "record_dramatic", "complete"} -> 0
        [] pc = "dramatic" -> 1
        [] OTHER -> 2

\* the most events one run emits: 2 (initialisation), 5 (opening), 1 + 9 per
\* evidence round, 5 (cross-examination), 3 (final arguments), 2 (judgment)
MostEvents == 2 + 5 + (1 + evidence_rounds * 9) + 5 + 3 + 2

C2_NeverStuck ==
    /\ pc # "aborted"
    /\ pc = "done" \/ ENABLED Next
    /\ Progress <= 3 * MostEvents + 2
    /\ pc = "done" =>
          /\ phase = "COMPLETE"
          /\ result.returned
          /\ result.verdict.decision \in {"APPROVED", "REJECTED"}

\* C2: with non-empty teams, whatever tiers the evidence has and whatever the
\* objection draws are, the run never aborts, can always take a next step
\* until it has returned, and every step brings it forward by a bounded
\* measure: it reaches COMPLETE and returns a result bundle with a verdict.
C2_RunCompletes ==
    /\ [](pro_agents # {} /\ con_agents # {} => C2_NeverStuck)
    /\ [][Progress' > Progress]_vars

C2_Witness ==
    /\ result.returned
    /\ result.verdict.decision = "REJECTED"
    /\ emitted_objections["PRO"] = evidence_rounds
    /\ emitted_impact["PRO"] = evidence_rounds * Impact(4)

\* what the claim expects of _run_final_arguments for given confidences
ExpectedFinish(pro, con) ==
    CASE pro < 10 -> "CON"
      [] pro >= 10 /\ con < 10 -> "PRO"
      [] OTHER -> "normal"

C3_FinishMatches ==
    LET expected == ExpectedFinish(pro_confidence, con_confidence) IN
    /\ pc = "finishing_move" =>
          /\ expected # "normal"
          /\ last_event.event_type = "dramatic_moment"
          /\ last_event.content.type = "knockout"
          /\ last_event.content.winning_team = expected
    /\ pc = "final_con" =>
          /\ expected = "normal"
          /\ last_event.event_type = "final_argument"
          /\ last_event.content.team = "PRO"
    /\ pc = "judgment" =>
          IF expected = "normal"
          THEN /\ last_event.event_type = "final_argument"
               /\ last_event.content.team = "CON"
               /\ n_emitted = 3
          ELSE /\ last_event.event_type = "finishing_move"
               /\ last_event.content.team = expected
               /\ last_event.agent = Role(expected, Primary(expected))
               /\ n_emitted = 3

\* C3: on entry to FINAL_ARGUMENTS, pro_confidence < 10 runs the CON
\* knockout (knockout event naming CON, finishing_move by the CON speaker)
\* and no final-argument exchange; con_confidence < 10 with pro_confidence
\* >= 10 runs the PRO knockout; otherwise the two final arguments run and no
\* knockout event is emitted.  The phase after FINAL_ARGUMENTS is JUDGMENT.
C3_KnockoutPaths ==
    /\ []C3_FinishMatches
    /\ [][phase = "FINAL_ARGUMENTS" /\ phase' # phase => phase' = "JUDGMENT"]_vars

C3_Witness ==
    /\ pc = "judgment"
    /\ pro_confidence < 10
    /\ con_confidence >= 10
    /\ last_event.event_type = "finishing_move"
    /\ last_event.content.team = "CON"

InRange(x) == 0 <= x /\ x <= 100

\* C4: every confidence reported in a confidence_update event and in the
\* final_confidence of the result bundle lies in [0, 100].
C4_ReportedConfidenceInRange ==
    /\ last_event.event_type = "confidence_update" =>
          /\ InRange(last_event.content.pro_confidence)
          /\ InRange(last_event.content.con_confidence)
    /\ result.returned =>
          /\ InRange(result.final_confidence.pro)
          /\ InRange(result.final_confidence.con)

\* C5: every emitted event is appended to state.transcript, so that the
\* transcript, and the 'transcript' of the result bundle, hold all the
\* events emitted so far.
C5_TranscriptHoldsEvents ==
    /\ Len(transcript) = n_emitted
    /\ result.returned => Len(result.transcript) = n_emitted

(***************************************************************************)
(* Properties of the event stream.                                         *)
(***************************************************************************)
\* the yielded events, without the closing final_result item
YieldedEvents == SelectSeq(yielded, LAMBDA e : e # FinalResultItem)

\* C6: the events yielded by analyze_requirement_streaming are emitted
\* events, in the order of their emission, none of them twice.
C6_YieldedInEmissionOrder ==
    /\ \A k \in 1..Len(YieldedEvents) : YieldedEvents[k] \in 1..n_emitted
    /\ \A k \in 1..(Len(YieldedEvents) - 1) :
          YieldedEvents[k] < YieldedEvents[k + 1]

C6_Witness ==
    /\ Len(yielded) >= 5
    /\ event_queue # <<>>
    /\ last_event.event_type = "objection_raised"

\* C7: the debate never waits for a consumer: whether the consumer has not
\* read anything, lags behind or has stopped reading, the debate task, as
\* long as it has not returned, can take its next step.
C7_ProducerNeverWaits ==
    pc \in {"done", "aborted"} \/ ENABLED Next

C7_Witness ==
    /\ cpc = "closed"
    /\ FinalResultItem \notin {yielded[k] : k \in 1..Len(yielded)}
    /\ Len(event_queue) > 2
    /\ pc = "done"

\* C8: when the run is cancelled, the confidence and the evidence score of
\* each team include the impact of every evidence_presented event emitted
\* for it and the penalty of every objection_raised event emitted against it.
C8_CancelLeavesStateConsistent ==
    pc = "cancelled" =>
        \A t \in Teams :
            /\ EvidenceScore(t) = emitted_impact[t]
            /\ \E opening \in {0, OpeningImpact} :
                   Confidence(t) = InitialConfidence + opening
                       + emitted_impact[t]
                       - ObjectionPenalty * emitted_objections[t]

(***************************************************************************)
(* The Brave rate limiter of WorkingResearchPipeline.  Each thread runs    *)
(* search_evidence on its pipeline: max_queries calls of brave_search,     *)
(* each of which passes _enforce_brave_rate_limit and then sends the       *)
(* request.  `now` is time.time(); brave_calls counts the requests sent    *)
(* through each pipeline.                                                  *)
(***************************************************************************)
Threads == 1..MaxThreads

\* an orchestrator that is not running
InitDebateIdle ==
    /\ InitDebateState
    /\ pro_agents = {}
    /\ con_agents = {}
    /\ primary_pro = 0
    /\ primary_con = 0
    /\ enable_special_effects = TRUE
    /\ tier_pool = Tiers
    /\ max_rounds = default_max_rounds
    /\ event_queue = <<>>
    /\ n_emitted = 0
    /\ last_event = NoEvent
    /\ emitted_impact = [t \in Teams |-> 0]
    /\ emitted_objections = [t \in Teams |-> 0]
    /\ pc = "idle"
    /\ suspended = TRUE
    /\ turn = "PRO"
    /\ round_i = 0
    /\ evidence = 0
    /\ verdict = NoVerdict
    /\ result = NoResult
    /\ InitStreamIdle

\* WorkingResearchPipeline.__init__ for every pipeline, and the threads
\* about to call
InitPipelines ==
    /\ InitDebateIdle
    /\ now = StartTime
    /\ last_brave_call = [p \in Threads |-> 0]
    /\ rate_lock = [p \in Threads |-> 0]
    /\ tpc = [t \in Threads |-> "idle"]
    /\ current_time = [t \in Threads |-> 0]
    /\ wake_at = [t \in Threads |-> 0]
    /\ calls_left = [t \in Threads |-> max_queries]
    /\ brave_calls = [p \in Threads |-> 0]
    /\ InitServicesIdle

\* current_time = time.time(), read before the lock is taken
ReadClock(t) ==
    /\ tpc[t] = "idle"
    /\ calls_left[t] > 0
    /\ current_time' = [current_time EXCEPT ![t] = now]
    /\ tpc' = [tpc EXCEPT ![t] = "acquire"]
    /\ UNCHANGED <<debateVars, streamVars, serviceVars, now, pipeline_of,
                   last_brave_call,
                   rate_lock, wake_at, calls_left, brave_calls>>

\* wait_time of _enforce_brave_rate_limit, 0 when no sleep is needed
WaitTime(read_at, last_call) ==
    IF read_at - last_call < min_delay_between_calls
    THEN min_delay_between_calls - (read_at - last_call)
    ELSE 0

\* variant: the limiter without its lock
AcquireWithoutLock(t) ==
    LET p == pipeline_of[t]
        wait == WaitTime(current_time[t], last_brave_call[p])
    IN  /\ tpc[t] = "acquire"
        /\ IF wait > 0
           THEN /\ wake_at' = [wake_at EXCEPT ![t] = now + wait]
                /\ tpc' = [tpc EXCEPT ![t] = "sleeping"]
           ELSE /\ tpc' = [tpc EXCEPT ![t] = "update"]
                /\ UNCHANGED wake_at
        /\ current_time' = [current_time EXCEPT ![t] = 0]
        /\ UNCHANGED <<debateVars, streamVars, serviceVars, now, pipeline_of,
                       last_brave_call, rate_lock, calls_left, brave_calls>>

\* with self._rate_lock: ... time.sleep(wait_time) is entered
AcquireRateLock(t) ==
    LET p == pipeline_of[t]
        wait == WaitTime(current_time[t], last_brave_call[p])
    IN  /\ tpc[t] = "acquire"
        /\ rate_lock[p] = 0
        /\ rate_lock' = [rate_lock EXCEPT ![p] = t]
        /\ IF wait > 0
           THEN /\ wake_at' = [wake_at EXCEPT ![t] = now + wait]
                /\ tpc' = [tpc EXCEPT ![t] = "sleeping"]
           ELSE /\ tpc' = [tpc EXCEPT ![t] = "update"]
                /\ UNCHANGED wake_at
        /\ current_time' = [current_time EXCEPT ![t] = 0]
        /\ UNCHANGED <<debateVars, streamVars, serviceVars, now, pipeline_of,
                       last_brave_call, calls_left, brave_calls>>

\* time.sleep(wait_time) returns, not before wait_time has passed
WakeUp(t) ==
    /\ tpc[t] = "sleeping"
    /\ now >= wake_at[t]
    /\ tpc' = [tpc EXCEPT ![t] = "update"]
    /\ wake_at' = [wake_at EXCEPT ![t] = 0]
    /\ UNCHANGED <<debateVars, streamVars, serviceVars, now, pipeline_of,
                   last_brave_call,
                   rate_lock, current_time, calls_left, brave_calls>>

\* self._last_brave_call = time.time(); the lock is released and the
\* request is sent
UpdateLastCall(t) ==
    LET p == pipeline_of[t] IN
    /\ tpc[t] = "update"
    /\ last_brave_call' = [last_brave_call EXCEPT ![p] = now]
    /\ rate_lock' = [rate_lock EXCEPT ![p] = 0]
    /\ brave_calls' = [brave_calls EXCEPT ![p] = @ + 1]
    /\ calls_left' = [calls_left EXCEPT ![t] = @ - 1]
    /\ tpc' = [tpc EXCEPT ![t] = IF calls_left[t] > 1 THEN "idle"
                                 ELSE "finished"]
    /\ UNCHANGED <<debateVars, streamVars, serviceVars, now, pipeline_of,
                   current_time,
                   wake_at>>

\* time passes: a thread outside a sleep may be held up until
\* StartTime + MaxDawdle, a sleeping thread is woken when its time has come
Tick ==
    /\ \A t \in Threads : tpc[t] = "sleeping" => now < wake_at[t]
    /\ \/ now < StartTime + MaxDawdle
       \/ \E t \in Threads : tpc[t] = "sleeping"
    /\ now' = now + 1
    /\ UNCHANGED <<debateVars, streamVars, serviceVars, pipeline_of,
                   last_brave_call,
                   rate_lock, tpc, current_time, wake_at, calls_left,
                   brave_calls>>

\* the threads share one pipeline
InitRate ==
    /\ InitPipelines
    /\ pipeline_of = [t \in Threads |-> 1]

\* concurrent evaluation runs: each thread has built its own pipeline
\* (MultiRoundDebateEngine.gather_evidence builds one per call)
InitRateRuns ==
    /\ InitPipelines
    /\ pipeline_of = [t \in Threads |-> t]

NextRate ==
    \/ \E t \in Threads : ReadClock(t)
    \/ \E t \in Threads : AcquireRateLock(t)
    \/ \E t \in Threads : WakeUp(t)
    \/ \E t \in Threads : UpdateLastCall(t)
    \/ Tick

SpecRate == InitRate /\ [][NextRate]_vars

SpecRateRuns == InitRateRuns /\ [][NextRate]_vars

(***************************************************************************)
(* Properties of the rate limiter.                                         *)
(***************************************************************************)
\* a step on which pipeline p records a pass through the limiter
RecordsPass(p) == brave_calls'[p] = brave_calls[p] + 1

\* steps of its calls that thread t has behind it
ThreadProgress(t) ==
    4 * (max_queries - calls_left[t])
    + CASE tpc[t] = "acquire" -> 1
        [] tpc[t] = "sleeping" -> 2
        [] tpc[t] = "update" -> 3
        [] OTHER -> 0

RECURSIVE SumProgress(_)
SumProgress(n) == IF n = 0 THEN 0 ELSE ThreadProgress(n) + SumProgress(n - 1)

Max(a, b) == IF a > b THEN a ELSE b

RECURSIVE LatestWake(_)
LatestWake(n) ==
    IF n = 0 THEN 0
    ELSE Max(IF tpc[n] = "sleeping" THEN wake_at[n] ELSE 0, LatestWake(n - 1))

\* how many more ticks of the clock the threads can be waiting for
TicksAhead ==
    Max(0, Max(StartTime + MaxDawdle, LatestWake(MaxThreads)) - now)

AllFinished == \A t \in Threads : tpc[t] = "finished"

C9_NoneStuckOrDropped ==
    /\ AllFinished \/ ENABLED NextRate
    /\ \A p \in Threads : rate_lock[p] # 0 =>
          tpc[rate_lock[p]] \in {"sleeping", "update"}
    /\ AllFinished => brave_calls[1] = MaxThreads * max_queries

\* C9: on one pipeline, under every interleaving of the calling threads, a
\* pass through the limiter records a _last_brave_call at least the minimum
\* delay after the one recorded before it; no caller is rejected, and none
\* waits for ever: the holder of the lock is asleep or about to release it,
\* until all calls are made some step is possible, and every step is a step
\* of a call or a tick of a clock that has finitely many ticks ahead.
C9_RateLimit ==
    /\ [][\A p \in Threads : RecordsPass(p) =>
            last_brave_call'[p] - last_brave_call[p]
                >= min_delay_between_calls]_vars
    /\ []C9_NoneStuckOrDropped
    /\ [][\/ SumProgress(MaxThreads)' > SumProgress(MaxThreads)
          \/ /\ SumProgress(MaxThreads)' = SumProgress(MaxThreads)
             /\ TicksAhead' < TicksAhead]_vars

\* a thread sleeps inside the lock after an earlier pass, while another that
\* read the clock before that pass was recorded waits for the lock
C9_Witness ==
    /\ brave_calls[1] >= 2
    /\ \E t \in Threads : tpc[t] = "sleeping" /\ rate_lock[1] = t
    /\ \E t \in Threads :
          /\ tpc[t] = "acquire"
          /\ current_time[t] < last_brave_call[1]

\* C10: any two requests to the Brave endpoint, made through whichever
\* pipelines, are at least the minimum delay apart.
C10_ProcessWideSpacing ==
    [][\A p, q \in Threads :
          RecordsPass(p) /\ brave_calls[q] > 0 =>
              last_brave_call'[p] - last_brave_call[q]
                  >= min_delay_between_calls]_vars

(***************************************************************************)
(* The search calls of WorkingResearchPipeline.search_evidence: each query *)
(* goes to the Brave caller when the pipeline has one, else to DuckDuckGo. *)
(* search_calls records, for every call, the tool it was handed to, the    *)
(* answer of the Brave endpoint, and whose results the call returned.      *)
(***************************************************************************)
\* response.status_code of requests.get, or the exception it raised
BraveAnswers == {"200", "429", "500", "exception"}

\* _initialize_search_tools: DuckDuckGo always, Brave with an API key
SearchTools == {{"duckduckgo"}, {"duckduckgo", "brave_direct"}}

NoAnswer == "none"

\* variant: a pipeline that stops asking Brave once it was throttled
FirstToolIfAvailable(tools, available) ==
    IF "brave_direct" \in tools /\ available THEN "brave_direct"
    ELSE "duckduckgo"

\* if "brave_direct" in self.search_tools: ... elif "duckduckgo" in ...
FirstTool(tools, available) ==
    IF "brave_direct" \in tools THEN "brave_direct" ELSE "duckduckgo"

SearchCall(tool, answer, provider, found, raised) ==
    [tool |-> tool, answer |-> answer, provider |-> provider,
     found |-> found, raised |-> raised]

\* _use_duckduckgo_fallback: the DuckDuckGo results, or [] when it raises
UseDuckDuckGoFallback(answer, ddg_ok) ==
    SearchCall("brave_direct", answer, "duckduckgo", ddg_ok, FALSE)

\* brave_search(query): the call returns the Brave results on 200, and
\* the fallback's on 429, on any other status and on an exception
BraveSearch(answer, ddg_ok) ==
    /\ api_call_count' =
          IF answer = "exception" THEN api_call_count
          ELSE api_call_count + 1
    /\ brave_available' = IF answer = "429" THEN FALSE ELSE brave_available
    /\ search_calls' = Append(search_calls,
          IF answer = "200"
          THEN SearchCall("brave_direct", answer, "brave", TRUE, FALSE)
          ELSE UseDuckDuckGoFallback(answer, ddg_ok))

\* self.search_tools["duckduckgo"].run(query) inside try / except
DuckDuckGoSearch(ddg_ok) ==
    /\ search_calls' = Append(search_calls,
          SearchCall("duckduckgo", NoAnswer, "duckduckgo", ddg_ok, FALSE))
    /\ UNCHANGED <<api_call_count, brave_available>>

\* one query of the loop of search_evidence
SearchQuery ==
    /\ search_tools # {}
    /\ Len(search_calls) < MaxSearchCalls
    /\ \E answer \in BraveAnswers, ddg_ok \in BOOLEAN :
          IF FirstTool(search_tools, brave_available) = "brave_direct"
          THEN BraveSearch(answer, ddg_ok)
          ELSE DuckDuckGoSearch(ddg_ok)
    /\ UNCHANGED <<debateVars, streamVars, rateVars, gatherVars, judgeVars,
                   evalVars,
                   search_tools>>

InitSearch ==
    /\ InitDebateIdle
    /\ InitRateIdle
    /\ InitGatherIdle
    /\ InitJudgeIdle
    /\ InitEvalIdle
    /\ search_tools \in SearchTools
    /\ brave_available = TRUE
    /\ api_call_count = 0
    /\ search_calls = <<>>

NextSearch == SearchQuery

SpecSearch == InitSearch /\ [][NextSearch]_vars

\* C11: on a pipeline with the Brave caller, a call that Brave answers with
\* 429 returns the DuckDuckGo fallback's results without raising, and every
\* call, also one after a 429, is handed to Brave first.
C11_FallbackForThatCallOnly ==
    "brave_direct" \in search_tools =>
        \A k \in 1..Len(search_calls) :
            /\ search_calls[k].tool = "brave_direct"
            /\ search_calls[k].answer \in BraveAnswers
            /\ search_calls[k].answer = "429" =>
                  /\ search_calls[k].provider = "duckduckgo"
                  /\ ~search_calls[k].raised
            /\ search_calls[k].answer = "200" =>
                  search_calls[k].provider = "brave"

C11_Witness ==
    /\ Len(search_calls) >= 2
    /\ search_calls[1].answer = "429"
    /\ search_calls[1].provider = "duckduckgo"
    /\ ~brave_available
    /\ search_calls[2].answer = "200"
    /\ search_calls[2].provider = "brave"

(***************************************************************************)
(* EvidenceGatherer.gather_evidence.  A search result is a record of its   *)
(* title (text and length), its snippet (a sequence of words, "." ending   *)
(* a sentence) and its url (netloc and path); "" and <<>> are the empty    *)
(* strings.  Scores are integers: relevance and credibility in hundredths, *)
(* recency in tenths.                                                      *)
(***************************************************************************)
\* for query in queries[:3]
query_limit == 3
\* _calculate_recency without a "date" in the result: 0.5, in tenths
default_recency == 5
\* self.source_credibility["default"]: 0.5, in hundredths
default_credibility == 50

NoUrl == [netloc |-> "", path |-> ""]
LongTitle == [text |-> "OAuth login adoption study", length |-> 26]
ShortTitle == [text |-> "OAuth", length |-> 5]

\* the words of the requirement
RequirementWords == {"oauth", "login"}

\* what the search pipeline may hand back for a query
SearchResults ==
    { [title |-> LongTitle, snippet |-> <<"oauth", "login", "works">>,
       url |-> [netloc |-> "arxiv.org", path |-> "/abs/1"]],
      [title |-> LongTitle, snippet |-> <<"oauth", "fails">>,
       url |-> [netloc |-> "arxiv.org", path |-> "/abs/1"]],
      [title |-> ShortTitle, snippet |-> <<"login", "is", "slow", ".", "oauth">>,
       url |-> [netloc |-> "github.com", path |-> "/issues/2"]],
      [title |-> ShortTitle, snippet |-> <<"oauth", "login", "rocks">>,
       url |-> [netloc |-> "medium.com", path |-> "/p/3"]],
      [title |-> LongTitle, snippet |-> <<"oauth", "login">>, url |-> NoUrl],
      [title |-> ShortTitle, snippet |-> <<>>,
       url |-> [netloc |-> "medium.com", path |-> "/p/4"]] }

\* the result lists of at most MaxResults results
RECURSIVE ResultLists(_)
ResultLists(n) ==
    IF n = 0 THEN {<<>>}
    ELSE ResultLists(n - 1) \cup
         {Append(l, r) : l \in {x \in ResultLists(n - 1) : Len(x) = n - 1},
                         r \in SearchResults}

\* _extract_domain: urlparse(url).netloc
ExtractDomain(url) == url.netloc

\* sentences = snippet.split(". "); sentences[0]
RECURSIVE FirstSentence(_)
FirstSentence(snippet) ==
    IF snippet = <<>> \/ Head(snippet) = "." THEN <<>>
    ELSE <<Head(snippet)>> \o FirstSentence(Tail(snippet))

\* _extract_claim
ExtractClaim(title, snippet) ==
    IF title.length > 20 THEN <<title.text>> ELSE FirstSentence(snippet)

\* _determine_tier
DetermineTier(source) ==
    CASE source \in {"arxiv.org", "acm.org", "ieee.org"} -> 1
      [] source \in {"gartner.com", "forrester.com", "mckinsey.com"} -> 2
      [] source \in {"github.com", "stackoverflow.com", "dev.to"} -> 3
      [] OTHER -> 4

Words(text) == {text[k] : k \in 1..Len(text)} \ {"."}

\* _calculate_relevance, in hundredths
CalculateRelevance(text, requirement_words) ==
    IF requirement_words = {} THEN 0
    ELSE Min(100, (100 * Cardinality(requirement_words \cap Words(text)))
                      \div Cardinality(requirement_words))

\* _get_source_credibility, in hundredths
GetSourceCredibility(source) ==
    CASE source = "arxiv.org" -> 90
      [] source = "github.com" -> 80
      [] source = "medium.com" -> 50
      [] OTHER -> default_credibility

\* the Evidence object built from one search result
MakeEvidence(r) ==
    [claim |-> ExtractClaim(r.title, r.snippet),
     source |-> ExtractDomain(r.url),
     url |-> r.url,
     tier |-> DetermineTier(ExtractDomain(r.url)),
     relevance_score |-> CalculateRelevance(r.snippet, RequirementWords),
     recency_score |-> default_recency,
     credibility_score |-> GetSourceCredibility(ExtractDomain(r.url)),
     raw_text |-> r.snippet]

\* _process_search_results: results without url or snippet are skipped
RECURSIVE ProcessSearchResults(_)
ProcessSearchResults(results) ==
    IF results = <<>> THEN <<>>
    ELSE LET r == Head(results) IN
         (IF r.url = NoUrl \/ r.snippet = <<>> THEN <<>>
          ELSE <<MakeEvidence(r)>>)
         \o ProcessSearchResults(Tail(results))

\* Evidence.total_score
TotalScore(e) ==
    (CASE e.tier = 1 -> 10 [] e.tier = 2 -> 5 [] e.tier = 3 -> 2
       [] OTHER -> 1)
    * e.relevance_score * e.recency_score * e.credibility_score

\* variant: a hash over the text of the evidence as well
HashWithText(e) == <<e.source, e.claim, e.url, e.raw_text>>

\* Evidence.hash: the digest of "source:claim:url"
Hash(e) == <<e.source, e.claim, e.url>>

\* _deduplicate_evidence, with the hashes seen so far
RECURSIVE DeduplicateFrom(_, _)
DeduplicateFrom(evidence_list, seen_hashes) ==
    IF evidence_list = <<>> THEN <<>>
    ELSE LET e == Head(evidence_list) IN
         IF Hash(e) \in seen_hashes
         THEN DeduplicateFrom(Tail(evidence_list), seen_hashes)
         ELSE <<e>> \o DeduplicateFrom(Tail(evidence_list),
                                       seen_hashes \cup {Hash(e)})

DeduplicateEvidence(evidence_list) == DeduplicateFrom(evidence_list, {})

\* the place of e in a list sorted by total_score, highest first; equal
\* scores keep their order (sorted is stable)
RECURSIVE InsertRanked(_, _)
InsertRanked(e, ranked) ==
    IF ranked = <<>> THEN <<e>>
    ELSE IF TotalScore(Head(ranked)) >= TotalScore(e)
         THEN <<Head(ranked)>> \o InsertRanked(e, Tail(ranked))
         ELSE <<e>> \o ranked

\* variant: the evidence left in the order it was found
Unsorted(evidence_list) == evidence_list

\* sorted(unique_evidence, key=lambda e: e.total_score, reverse=True)
RECURSIVE Sorted(_)
Sorted(evidence_list) ==
    IF evidence_list = <<>> THEN <<>>
    ELSE InsertRanked(evidence_list[Len(evidence_list)],
                      Sorted(SubSeq(evidence_list, 1, Len(evidence_list) - 1)))

\* list[:n]: a negative n counts from the end
Slice(list, n) ==
    IF n >= 0 THEN SubSeq(list, 1, Min(Len(list), n))
    ELSE SubSeq(list, 1, Max(0, Len(list) + n))

\* what search_evidence does for one query: it raises, or returns a list
SearchOutcomes ==
    {[raised |-> TRUE, results |-> <<>>]}
    \cup {[raised |-> FALSE, results |-> l] : l \in ResultLists(MaxResults)}

\* variant: _search_and_parse without its try / except
SearchAndParseUncaught(outcome) == outcome

\* _search_and_parse: an exception of the search is caught and gives []
SearchAndParse(outcome) ==
    IF outcome.raised THEN [raised |-> FALSE, results |-> <<>>]
    ELSE outcome

\* one turn of the loop of gather_evidence; an exception that came out of
\* _search_and_parse would leave gather_evidence
GatherQuery ==
    /\ gpc = "search"
    /\ \E outcome \in SearchOutcomes :
          LET parsed == SearchAndParse(outcome) IN
          IF parsed.raised
          THEN /\ gpc' = "raised"
               /\ UNCHANGED <<queries_issued, queries_failed, all_evidence,
                              results_found>>
          ELSE /\ queries_issued' = queries_issued + 1
               /\ queries_failed' =
                     queries_failed + (IF outcome.raised THEN 1 ELSE 0)
               /\ results_found' = results_found \o outcome.results
               /\ all_evidence' =
                     all_evidence \o ProcessSearchResults(parsed.results)
               /\ gpc' = IF queries_issued + 1 = query_limit THEN "rank"
                         ELSE "search"
    /\ UNCHANGED <<debateVars, streamVars, rateVars, searchVars, judgeVars,
                   evalVars,
                   max_sources, ranked_evidence>>

\* the end of gather_evidence: deduplicate, rank, cut to max_sources
RankEvidence ==
    /\ gpc = "rank"
    /\ ranked_evidence' =
          Slice(Sorted(DeduplicateEvidence(all_evidence)), max_sources)
    /\ gpc' = "returned"
    /\ UNCHANGED <<debateVars, streamVars, rateVars, searchVars, judgeVars,
                   evalVars,
                   max_sources, queries_issued, queries_failed,
                   all_evidence, results_found>>

\* gather_evidence is called with some max_sources
InitGather ==
    /\ InitDebateIdle
    /\ InitRateIdle
    /\ InitSearchIdle
    /\ InitJudgeIdle
    /\ InitEvalIdle
    /\ gpc = "search"
    /\ max_sources \in (0 - 1)..MaxSources
    /\ queries_issued = 0
    /\ queries_failed = 0
    /\ all_evidence = <<>>
    /\ ranked_evidence = <<>>
    /\ results_found = <<>>

NextGather == GatherQuery \/ RankEvidence

SpecGather == InitGather /\ [][NextGather]_vars

Elements(list) == {list[k] : k \in 1..Len(list)}

FirstWithTriple(e) ==
    LET k == CHOOSE i \in 1..Len(all_evidence) :
                 /\ Hash(all_evidence[i]) = Hash(e)
                 /\ \A j \in 1..(i - 1) : Hash(all_evidence[j]) # Hash(e)
    IN  all_evidence[k]

\* C13: the returned list holds no two records with the same (source,
\* claim, url), and each record in it is the first one gathered with its
\* (source, claim, url).
C13_NoDuplicateTriples ==
    gpc = "returned" =>
        /\ \A i, j \in 1..Len(ranked_evidence) :
              i # j =>
                 <<ranked_evidence[i].source, ranked_evidence[i].claim,
                   ranked_evidence[i].url>>
                 # <<ranked_evidence[j].source, ranked_evidence[j].claim,
                     ranked_evidence[j].url>>
        /\ \A i \in 1..Len(ranked_evidence) :
              ranked_evidence[i] = FirstWithTriple(ranked_evidence[i])

C13_Witness ==
    /\ gpc = "returned"
    /\ \E i, j \in 1..Len(all_evidence) :
          /\ i < j
          /\ Hash(all_evidence[i]) = Hash(all_evidence[j])
          /\ all_evidence[i].raw_text # all_evidence[j].raw_text
          /\ TotalScore(all_evidence[i]) < TotalScore(all_evidence[j])
          /\ all_evidence[i] \in Elements(ranked_evidence)

RankedBest ==
    LET unique == DeduplicateEvidence(all_evidence) IN
    /\ \A k \in 1..(Len(ranked_evidence) - 1) :
          TotalScore(ranked_evidence[k]) >= TotalScore(ranked_evidence[k + 1])
    /\ Len(ranked_evidence) = Min(max_sources, Len(unique))
    /\ Elements(ranked_evidence) \subseteq Elements(unique)
    /\ \A e \in Elements(unique) \ Elements(ranked_evidence) :
          \A r \in Elements(ranked_evidence) :
              TotalScore(e) <= TotalScore(r)

JudgePersonality == {"pragmatist", "innovator", "user_advocate"}

Categories ==
    {"technical_feasibility", "roi", "risk", "innovation", "user_impact"}

\* one point of score, in the unit of the final score
ScorePoint == 1000

\* variant: pragmatist weights that leave innovation out
ScoringWeightsShort(p) ==
    [technical_feasibility |-> 30, roi |-> 35, risk |-> 20,
     innovation |-> 0, user_impact |-> 10]

\* _get_scoring_weights, in hundredths
ScoringWeights(p) ==
    CASE p = "pragmatist" ->
           [technical_feasibility |-> 30, roi |-> 35, risk |-> 20,
            innovation |-> 5, user_impact |-> 10]
      [] p = "innovator" ->
           [technical_feasibility |-> 15, roi |-> 20, risk |-> 10,
            innovation |-> 35, user_impact |-> 20]
      [] p = "user_advocate" ->
           [technical_feasibility |-> 15, roi |-> 15, risk |-> 10,
            innovation |-> 10, user_impact |-> 50]

\* the arguments a transcript may hold
Arguments ==
    { [evidence_tier |-> 1, impact |-> 40, categories |-> Categories,
       severity |-> "none", issue |-> "none"],
      [evidence_tier |-> 1, impact |-> 20, categories |-> {"roi", "risk"},
       severity |-> "none", issue |-> "none"],
      [evidence_tier |-> 2, impact |-> 30,
       categories |-> {"user_impact", "team_morale"},
       severity |-> "high", issue |-> "too_complex"],
      [evidence_tier |-> 4, impact |-> 50, categories |-> {"innovation"},
       severity |-> "critical", issue |-> "security_breach_risk"],
      [evidence_tier |-> 3, impact |-> 10,
       categories |-> {"technical_feasibility"},
       severity |-> "critical", issue |-> "maintenance_burden"] }

RECURSIVE ArgumentLists(_)
ArgumentLists(n) ==
    IF n = 0 THEN {<<>>}
    ELSE ArgumentLists(n - 1) \cup
         {Append(l, a) : l \in {x \in ArgumentLists(n - 1) : Len(x) = n - 1},
                         a \in Arguments}

\* the weight of an argument by the tier of its evidence, in tenths
TierWeight(evidence_tier) ==
    CASE evidence_tier = 1 -> 10
      [] evidence_tier = 2 -> 7
      [] evidence_tier = 3 -> 4
      [] OTHER -> 2

\* what the arguments add to a category, in tenths
RECURSIVE CategorySum(_, _)
CategorySum(arguments, category) ==
    IF arguments = <<>> THEN 0
    ELSE (IF category \in Head(arguments).categories
          THEN Head(arguments).impact * TierWeight(Head(arguments).evidence_tier)
          ELSE 0)
         + CategorySum(Tail(arguments), category)

\* evaluate_debate: PRO adds, CON subtracts, then max(0, min(100, s + 50))
EvaluateDebate(pro, con) ==
    [c \in Categories |->
        Max(0, Min(1000, CategorySum(pro, c) - CategorySum(con, c) + 500))]

\* calculate_final_score, in thousandths
RECURSIVE WeightedSum(_, _, _)
WeightedSum(category_scores, weights, categories) ==
    IF categories = {} THEN 0
    ELSE LET c == CHOOSE x \in categories : TRUE IN
         category_scores[c] * weights[c]
         + WeightedSum(category_scores, weights, categories \ {c})

CalculateFinalScore(category_scores, p) ==
    WeightedSum(category_scores, ScoringWeights(p), Categories)

critical_blockers ==
    {"security_breach_risk", "legal_violation", "data_loss_potential",
     "negative_roi_guaranteed"}

\* variant: the boundary 70 given to the lower verdict
DetermineVerdictAbove(score, issues) ==
    IF \E k \in 1..Len(issues) : issues[k] \in critical_blockers
    THEN "REJECTED"
    ELSE CASE score > 70 * ScorePoint -> "APPROVED"
           [] score >= 50 * ScorePoint -> "CONDITIONAL"
           [] score >= 40 * ScorePoint -> "NEEDS_RESEARCH"
           [] OTHER -> "REJECTED"

\* determine_verdict
DetermineVerdict(score, issues) ==
    IF \E k \in 1..Len(issues) : issues[k] \in critical_blockers
    THEN "REJECTED"
    ELSE IF score >= 70 * ScorePoint THEN "APPROVED"
    ELSE IF score >= 50 * ScorePoint THEN "CONDITIONAL"
    ELSE IF score >= 40 * ScorePoint THEN "NEEDS_RESEARCH"
    ELSE "REJECTED"

\* [arg["issue"] for arg in con_arguments if arg.get("severity") ==
\* "critical"]
RECURSIVE CriticalIssues(_)
CriticalIssues(arguments) ==
    IF arguments = <<>> THEN <<>>
    ELSE (IF Head(arguments).severity = "critical"
          THEN <<Head(arguments).issue>> ELSE <<>>)
         \o CriticalIssues(Tail(arguments))

\* render_verdict: the decision and the confidence of the Verdict
RenderJudgeVerdict ==
    /\ jpc = "render"
    /\ LET category_scores == EvaluateDebate(pro_arguments, con_arguments)
           score == CalculateFinalScore(category_scores, personality)
           issues == CriticalIssues(con_arguments)
       IN  /\ scores' = category_scores
           /\ final_score' = score
           /\ critical_issues' = issues
           /\ judge_verdict' =
                 [decision |-> DetermineVerdict(score, issues),
                  confidence |->
                      Min(100 * ScorePoint, Abs(score - 50 * ScorePoint) * 2)]
    /\ jpc' = "rendered"
    /\ UNCHANGED <<debateVars, streamVars, rateVars, searchVars, gatherVars,
                   evalVars,
                   personality, pro_arguments, con_arguments>>

\* a judge of some personality is handed a transcript
InitJudge ==
    /\ InitDebateIdle
    /\ InitRateIdle
    /\ InitSearchIdle
    /\ InitGatherIdle
    /\ InitEvalIdle
    /\ jpc = "render"
    /\ personality \in JudgePersonality
    /\ pro_arguments \in ArgumentLists(MaxArguments)
    /\ con_arguments \in ArgumentLists(MaxArguments)
    /\ scores = <<>>
    /\ final_score = 0
    /\ critical_issues = <<>>
    /\ judge_verdict = [decision |-> "none", confidence |-> 0]

NextJudge == RenderJudgeVerdict

SpecJudge == InitJudge /\ [][NextJudge]_vars

\* the final scores determine_verdict is tried with: every half point from
\* 0 to 100, and the nearest scores on either side of the thresholds
FinalScores ==
    {k * (ScorePoint \div 2) : k \in 0..200}
    \cup {t * ScorePoint + d : t \in {40, 50, 70}, d \in {0 - 1, 1}}

Issues == critical_blockers \cup {"too_complex", "maintenance_burden"}

RECURSIVE IssueLists(_)
IssueLists(n) ==
    IF n = 0 THEN {<<>>}
    ELSE IssueLists(n - 1) \cup
         {Append(l, i) : l \in {x \in IssueLists(n - 1) : Len(x) = n - 1},
                         i \in Issues}

\* a call of determine_verdict(final_score, critical_issues)
DetermineVerdictCall ==
    /\ jpc = "determine"
    /\ judge_verdict' =
          [judge_verdict EXCEPT
              !.decision = DetermineVerdict(final_score, critical_issues)]
    /\ jpc' = "determined"
    /\ UNCHANGED <<debateVars, streamVars, rateVars, searchVars, gatherVars,
                   evalVars,
                   personality, pro_arguments, con_arguments, scores,
                   final_score, critical_issues>>

InitVerdict ==
    /\ InitDebateIdle
    /\ InitRateIdle
    /\ InitSearchIdle
    /\ InitGatherIdle
    /\ InitEvalIdle
    /\ jpc = "determine"
    /\ personality \in JudgePersonality
    /\ pro_arguments = <<>>
    /\ con_arguments = <<>>
    /\ scores = <<>>
    /\ final_score \in FinalScores
    /\ critical_issues \in IssueLists(MaxArguments)
    /\ judge_verdict = [decision |-> "none", confidence |-> 0]

NextVerdict == DetermineVerdictCall

SpecVerdict == InitVerdict /\ [][NextVerdict]_vars

IsBlocker(a) == a.severity = "critical" /\ a.issue \in critical_blockers

\* C15: a verdict rendered on a transcript in which some argument, PRO or
\* CON, is critical with an issue of the blocker set, is REJECTED.
C15_BlockerForcesRejected ==
    jpc = "rendered" =>
        ((\E a \in Elements(pro_arguments) \cup Elements(con_arguments) :
              IsBlocker(a))
         => judge_verdict.decision = "REJECTED")

\* C16: without a blocker among the critical issues, determine_verdict gives
\* APPROVED from 70 up, CONDITIONAL from 50 to below 70, NEEDS_RESEARCH from
\* 40 to below 50, and REJECTED below 40.
C16_VerdictThresholds ==
    jpc = "determined"
    /\ (\A k \in 1..Len(critical_issues) :
            critical_issues[k] \notin critical_blockers)
    => /\ final_score >= 70 * ScorePoint
            <=> judge_verdict.decision = "APPROVED"
       /\ (final_score >= 50 * ScorePoint /\ final_score < 70 * ScorePoint)
            <=> judge_verdict.decision = "CONDITIONAL"
       /\ (final_score >= 40 * ScorePoint /\ final_score < 50 * ScorePoint)
            <=> judge_verdict.decision = "NEEDS_RESEARCH"
       /\ final_score < 40 * ScorePoint
            <=> judge_verdict.decision = "REJECTED"

C16_Witness ==
    /\ jpc = "determined"
    /\ final_score = 70 * ScorePoint
    /\ critical_issues = <<"too_complex">>
    /\ judge_verdict.decision = "APPROVED"

\* C17: with no argument on either side, for every personality, every
\* category score is 50, the final score is 50, the verdict is CONDITIONAL
\* and its confidence is 0.
C17_NoArgumentsConditional ==
    jpc = "rendered" /\ pro_arguments = <<>> /\ con_arguments = <<>> =>
        /\ \A c \in Categories : scores[c] * 100 = 50 * ScorePoint
        /\ final_score = 50 * ScorePoint
        /\ judge_verdict.decision = "CONDITIONAL"
        /\ judge_verdict.confidence = 0

C17_Witness ==
    /\ jpc = "rendered"
    /\ personality = "pragmatist"
    /\ pro_arguments = <<>>
    /\ con_arguments = <<>>
    /\ judge_verdict.decision = "CONDITIONAL"

\* C18: the debate mode's max_rounds is the number of rounds run: the
\* rounds value of the compiled results equals the configured max_rounds.
C18_RoundsEqualMaxRounds ==
    pc = "done" /\ result.returned => result.rounds = max_rounds

\* C19: when analyze_requirement_streaming has yielded its closing
\* final_result item, every emitted event has been yielded before it and
\* none is left in the queue.
C19_StreamDeliversEveryEvent ==
    FinalResultItem \in Elements(yielded) =>
        /\ event_queue = <<>>
        /\ Len(YieldedEvents) = n_emitted

\* the step that puts an objection_raised event
ObjectionRaised ==
    /\ n_emitted' = n_emitted + 1
    /\ last_event'.event_type = "objection_raised"

\* C20: an objection is raised only in EVIDENCE_DUEL, directly after the
\* presentation (by team `turn`, of tier `evidence`) of evidence of tier 3
\* or 4, and by the other team; the penalty that follows takes exactly 10
\* from the presenting team's confidence and leaves the objecting team's
\* confidence and both evidence scores as they are; after a presentation of
\* tier 1 or 2 no objection is raised.
C20_ObjectionOnlyOnWeakEvidence ==
    /\ [](pc = "apply_evidence" =>
            /\ last_event.event_type = "evidence_presented"
            /\ last_event.content.tier = evidence
            /\ last_event.content.team = turn)
    /\ [][pc = "apply_evidence" =>
            pc' = "objection" /\ UNCHANGED <<evidence, turn>>]_vars
    /\ [][ObjectionRaised =>
            /\ phase = "EVIDENCE_DUEL"
            /\ pc = "objection"
            /\ evidence >= 3
            /\ last_event'.content.team = Other(turn)
            /\ last_event'.content.target_tier = evidence
            /\ pc' = "objection_penalty"
            /\ UNCHANGED <<pro_confidence, con_confidence, pro_evidence_score,
                           con_evidence_score, evidence, turn>>]_vars
    /\ [][pc = "objection_penalty" =>
            /\ \A presenter \in Teams : presenter = turn =>
                  /\ Confidence(presenter)' = Confidence(presenter) - 10
                  /\ Confidence(Other(presenter))' =
                        Confidence(Other(presenter))
            /\ UNCHANGED <<pro_evidence_score, con_evidence_score>>
            /\ pc' # "objection_penalty"]_vars
    /\ [][pc = "objection" /\ evidence < 3 =>
            /\ n_emitted' = n_emitted
            /\ pc' \in {"present", "dramatic"}
            /\ UNCHANGED <<pro_confidence, con_confidence>>]_vars

C20_Witness ==
    /\ pc = "dramatic"
    /\ round_i = 0
    /\ evidence = 3
    /\ emitted_impact["CON"] = Impact(3)
    /\ emitted_objections = [PRO |-> 0, CON |-> 1]

AfterEvidenceDuel ==
    phase \in {"CROSS_EXAMINATION", "FINAL_ARGUMENTS", "JUDGMENT", "COMPLETE"}

\* C21: the presentation of evidence of tier t adds (5 - t) * 5, that is
\* 20, 15, 10 or 5, to the presenting team's confidence and evidence score
\* and leaves the other team's confidence and evidence score alone; the
\* evidence scores change in no other step, so that after EVIDENCE_DUEL
\* each is the sum of the impacts of the team's three presentations.
C21_EvidenceImpact ==
    /\ [](pc = "apply_evidence" =>
            /\ last_event.event_type = "evidence_presented"
            /\ last_event.content.team = turn
            /\ last_event.content.tier = evidence
            /\ last_event.content.impact = (5 - evidence) * 5
            /\ <<evidence, last_event.content.impact>>
                  \in {<<1, 20>>, <<2, 15>>, <<3, 10>>, <<4, 5>>})
    /\ [][pc = "apply_evidence" =>
            \A presenter \in Teams : presenter = turn =>
                /\ Confidence(presenter)' =
                      Confidence(presenter) + (5 - evidence) * 5
                /\ EvidenceScore(presenter)' =
                      EvidenceScore(presenter) + (5 - evidence) * 5
                /\ Confidence(Other(presenter))' =
                      Confidence(Other(presenter))
                /\ EvidenceScore(Other(presenter))' =
                      EvidenceScore(Other(presenter))]_vars
    /\ [][pc # "apply_evidence" =>
            UNCHANGED <<pro_evidence_score, con_evidence_score>>]_vars
    /\ [](AfterEvidenceDuel =>
            \A t \in Teams :
                /\ EvidenceScore(t) = emitted_impact[t]
                /\ EvidenceScore(t) >= evidence_rounds * 5
                /\ EvidenceScore(t) <= evidence_rounds * 20)

C21_Witness ==
    /\ phase = "CROSS_EXAMINATION"
    /\ pro_evidence_score = 20 + 15 + 10
    /\ con_evidence_score = 5 + 5 + 20
    /\ emitted_objections = [PRO |-> 1, CON |-> 2]

\* the draws of random.random(), in hundredths, on which _attempt_objection
\* goes on to raise the objection
RaisingDraws == {draw \in Draws : ~ObjectionDeclined(draw)}

DramaticMomentEmitted ==
    /\ n_emitted' = n_emitted + 1
    /\ last_event'.event_type = "dramatic_moment"

ConfidenceGap ==
    IF pro_confidence >= con_confidence
    THEN pro_confidence - con_confidence
    ELSE con_confidence - pro_confidence

\* C23: the dramatic-moment check is made once in each evidence sub-round,
\* when both teams have presented and the objections of the sub-round are
\* settled; it emits a momentum_shift event, followed by one new entry of
\* dramatic_moments, exactly when the gap between the confidences is more
\* than 20, and the event names the team whose confidence is higher.
C23_DramaticMomentCheck ==
    /\ [](pc = "dramatic" =>
            /\ phase = "EVIDENCE_DUEL"
            /\ turn = "CON"
            /\ \A t \in Teams :
                  /\ emitted_impact[t] >= (round_i + 1) * 5
                  /\ Confidence(t) = InitialConfidence + OpeningImpact
                        + emitted_impact[t]
                        - emitted_objections[t] * ObjectionPenalty)
    /\ [][pc = "dramatic" =>
            /\ DramaticMomentEmitted <=> ConfidenceGap > 20
            /\ ConfidenceGap > 20 =>
                  /\ pc' = "record_dramatic"
                  /\ last_event'.content.type = "momentum_shift"
                  /\ last_event'.content.confidence_gap = ConfidenceGap
                  /\ last_event'.content.leading_team = "PRO"
                        <=> pro_confidence > con_confidence
                  /\ last_event'.content.leading_team = "CON"
                        <=> con_confidence > pro_confidence
            /\ ConfidenceGap <= 20 =>
                  /\ UNCHANGED <<n_emitted, dramatic_moments>>
                  /\ pc' \in {"present", "cross_examination"}]_vars
    /\ [][pc = "record_dramatic" =>
            /\ Len(dramatic_moments') = Len(dramatic_moments) + 1
            /\ pc' \in {"present", "cross_examination"}]_vars
    /\ [][DramaticMomentEmitted => pc = "dramatic"]_vars
    /\ [][dramatic_moments' # dramatic_moments =>
            pc = "record_dramatic"]_vars
    /\ [][(pc \in {"dramatic", "record_dramatic"}
            /\ pc' \notin {"dramatic", "record_dramatic"}) =>
              ((round_i' = round_i + 1 /\ pc' = "present")
               \/ (round_i = evidence_rounds - 1
                   /\ pc' = "cross_examination"))]_vars
    /\ [][round_i' # round_i => pc \in {"dramatic", "record_dramatic"}]_vars

\* a check made on a gap of exactly 20 has emitted nothing
C23_Witness ==
    /\ phase = "EVIDENCE_DUEL"
    /\ pc = "present"
    /\ turn = "PRO"
    /\ round_i = 1
    /\ ConfidenceGap = 20
    /\ dramatic_moments = <<>>
    /\ last_event.event_type = "confidence_update"

\* C24: from the start of CROSS_EXAMINATION to COMPLETE no step changes a
\* confidence or an evidence score, whatever effectiveness the responses
\* are classified with; the classification only appears in the
\* question_response event.
C24_CrossExaminationFeedsNothingBack ==
    /\ [][(pc = "cross_examination" \/ AfterEvidenceDuel) =>
            UNCHANGED <<pro_confidence, con_confidence, pro_evidence_score,
                        con_evidence_score>>]_vars
    /\ [](last_event.event_type = "question_response" =>
            /\ phase = "CROSS_EXAMINATION"
            /\ last_event.content.effectiveness \in Effectiveness)
    /\ [](pc = "done" =>
            \A t \in Teams :
                /\ EvidenceScore(t) = emitted_impact[t]
                /\ Confidence(t) = InitialConfidence + OpeningImpact
                      + emitted_impact[t]
                      - emitted_objections[t] * ObjectionPenalty)

C24_Witness ==
    /\ pc = "final_arguments"
    /\ phase = "CROSS_EXAMINATION"
    /\ last_event.event_type = "question_response"
    /\ last_event.content.effectiveness = "evasive"
    /\ pro_confidence = InitialConfidence + OpeningImpact + 3 * 5 - 3 * 10

\* C25: in a run of analyze_requirement on a new orchestrator both
\* confidences are between 40 and 115 when FINAL_ARGUMENTS is entered and
\* when its branch is taken, so that the branch taken is the normal
\* exchange and no knockout or finishing_move event is emitted.
C25_NoKnockoutInFullRun ==
    /\ pc \in {"final_arguments", "final_branch"} =>
          \A t \in Teams : Confidence(t) >= 40 /\ Confidence(t) <= 115
    /\ pc = "final_branch" =>
          /\ ~(pro_confidence < 10)
          /\ ~(con_confidence < 10)
          /\ ENABLED NormalFinalArguments
          /\ ~ENABLED KnockoutFinish
    /\ last_event.event_type # "finishing_move"
    /\ last_event.event_type = "dramatic_moment" =>
          last_event.content.type # "knockout"

C25_Witness ==
    /\ pc = "final_branch"
    /\ pro_confidence = 40
    /\ con_confidence = 115

\* C26: when _run_final_arguments finds both confidences below 10, the one
\* finish run is the CON knockout: a knockout event naming CON and then the
\* finishing_move of the CON speaker, whichever confidence is the lower;
\* no PRO knockout and no final_argument is emitted.
C26_DoubleKnockoutGoesToCon ==
    pro_confidence < 10 /\ con_confidence < 10 =>
        /\ pc \notin {"final_con"}
        /\ last_event.event_type # "final_argument"
        /\ pc = "finishing_move" =>
              /\ last_event.event_type = "dramatic_moment"
              /\ last_event.content.type = "knockout"
              /\ last_event.content.winning_team = "CON"
              /\ turn = "CON"
              /\ n_emitted = 2
        /\ pc = "judgment" =>
              /\ last_event.event_type = "finishing_move"
              /\ last_event.content.team = "CON"
              /\ last_event.agent = Role("CON", primary_con)
              /\ n_emitted = 3

C26_Witness ==
    /\ pc = "judgment"
    /\ pro_confidence = 5
    /\ con_confidence = 0 - 10
    /\ last_event.event_type = "finishing_move"
    /\ last_event.content.team = "CON"

\* C27: the verdict of the result bundle is decided by the confidences at
\* JUDGMENT alone: REJECTED exactly when con_confidence > pro_confidence,
\* otherwise (a tie included) APPROVED, never another decision; its
\* confidence is |con_confidence - pro_confidence| and lies in 0..100; its
\* savings are not 0 exactly when it is REJECTED.
C27_VerdictFromConfidences ==
    \A v \in (IF verdict # NoVerdict THEN {verdict} ELSE {})
             \cup (IF result.returned THEN {result.verdict} ELSE {}) :
        /\ v.decision \in {"APPROVED", "REJECTED"}
        /\ v.decision = "REJECTED" <=> con_confidence > pro_confidence
        /\ v.decision = "APPROVED" <=> con_confidence <= pro_confidence
        /\ v.confidence = ConfidenceGap
        /\ v.confidence >= 0 /\ v.confidence <= 100
        /\ v.savings # 0 <=> v.decision = "REJECTED"

C27_Witness ==
    /\ pc = "done"
    /\ result.returned
    /\ con_confidence = pro_confidence
    /\ result.verdict.decision = "APPROVED"
    /\ result.verdict.confidence = 0
    /\ result.verdict.savings = 0

\* C28: at COMPLETE the 'evidence' of the result bundle has one entry for
\* each of the 6 evidence_presented events emitted, and the objections count
\* of the debate summary is the number of objection_raised events emitted.
C28_ListsAgreeWithEvents ==
    pc = "done" /\ result.returned =>
        /\ Len(evidence_presented) = 2 * evidence_rounds
        /\ Len(result.evidence) = 2 * evidence_rounds
        /\ Len(objections) =
              emitted_objections["PRO"] + emitted_objections["CON"]
        /\ result.objections =
              emitted_objections["PRO"] + emitted_objections["CON"]

(***************************************************************************)
(* EvidenceScorer.compare_evidence.  The scores of an Evidence keep the    *)
(* units of the gatherer: relevance and credibility in hundredths, recency *)
(* in tenths; `score1 > score2 * 1.5` is compared as 2 * score1 against    *)
(* 3 * score2.                                                             *)
(***************************************************************************)
ScoredEvidence ==
    {[NoEvidence EXCEPT !.tier = t, !.relevance_score = r,
                        !.recency_score = c, !.credibility_score = d] :
        t \in 1..4, r \in {0, 50, 75, 100}, c \in {5, 10}, d \in {50, 100}}

CompareEvidence(e1, e2) ==
    LET score1 == TotalScore(e1)
        score2 == TotalScore(e2)
    IN  IF 2 * score1 > 3 * score2 THEN "evidence1_dominates"
        ELSE IF 2 * score2 > 3 * score1 THEN "evidence2_dominates"
        ELSE IF score1 > score2 THEN "evidence1_wins"
        ELSE IF score2 > score1 THEN "evidence2_wins"
        ELSE "draw"

\* a call of compare_evidence(evidence1, evidence2)
CompareEvidenceCall ==
    /\ epc = "compare"
    /\ comparison' = CompareEvidence(evidence1, evidence2)
    /\ epc' = "compared"
    /\ UNCHANGED <<debateVars, streamVars, rateVars, searchVars, gatherVars,
                   judgeVars, evidence1, evidence2, validation>>

InitCompare ==
    /\ InitDebateIdle
    /\ InitRateIdle
    /\ InitSearchIdle
    /\ InitGatherIdle
    /\ InitJudgeIdle
    /\ epc = "compare"
    /\ evidence1 \in ScoredEvidence
    /\ evidence2 \in ScoredEvidence
    /\ comparison = "none"
    /\ validation = [returned |-> FALSE]

NextCompare == CompareEvidenceCall

SpecCompare == InitCompare /\ [][NextCompare]_vars

\* C29: compare_evidence answers with a dominance when one total score is
\* greater than the other and at least 1.5 times it (exactly 1.5 times
\* included), otherwise with a win for the strictly greater score, and with
\* a draw for equal scores.
C29_DominanceFromOneAndAHalf ==
    epc = "compared" =>
        LET score1 == TotalScore(evidence1)
            score2 == TotalScore(evidence2)
        IN  comparison =
              IF score1 > score2 /\ 2 * score1 >= 3 * score2
              THEN "evidence1_dominates"
              ELSE IF score2 > score1 /\ 2 * score2 >= 3 * score1
              THEN "evidence2_dominates"
              ELSE IF score1 > score2 THEN "evidence1_wins"
              ELSE IF score2 > score1 THEN "evidence2_wins"
              ELSE "draw"

(***************************************************************************)
(* EvidenceValidator.validate_evidence.  A claim is the sequence of its    *)
(* characters, so that re.search(r'\d+', claim) and `word in claim.lower()` *)
(* are searches in it.                                                     *)
(***************************************************************************)
\* the claims validate_evidence is tried with: "" (empty), "costs 40",
\* "a Study", "metadata", "i think so", "fast login"
SampleClaims ==
    {<<>>,
     <<"c", "o", "s", "t", "s", " ", "4", "0">>,
     <<"a", " ", "S", "t", "u", "d", "y">>,
     <<"m", "e", "t", "a", "d", "a", "t", "a">>,
     <<"i", " ", "t", "h", "i", "n", "k", " ", "s", "o">>,
     <<"f", "a", "s", "t", " ", "l", "o", "g", "i", "n">>}

\* ["study", "report", "analysis", "data"]
data_words ==
    {<<"s", "t", "u", "d", "y">>,
     <<"r", "e", "p", "o", "r", "t">>,
     <<"a", "n", "a", "l", "y", "s", "i", "s">>,
     <<"d", "a", "t", "a">>}

\* ["i think", "i believe", "in my opinion", "i feel", "seems like"]
opinion_signals ==
    {<<"i", " ", "t", "h", "i", "n", "k">>,
     <<"i", " ", "b", "e", "l", "i", "e", "v", "e">>,
     <<"i", "n", " ", "m", "y", " ", "o", "p", "i", "n", "i", "o", "n">>,
     <<"i", " ", "f", "e", "e", "l">>,
     <<"s", "e", "e", "m", "s", " ", "l", "i", "k", "e">>}

Digits == {"0", "1", "2", "3", "4", "5", "6", "7", "8", "9"}

\* str.lower, on the capitals the claims are written with
LowerChar(c) ==
    CASE c = "S" -> "s" [] c = "D" -> "d" [] c = "R" -> "r" [] c = "A" -> "a"
      [] c = "I" -> "i" [] OTHER -> c

Lower(text) == [k \in 1..Len(text) |-> LowerChar(text[k])]

\* word in text
Contains(text, word) ==
    \E k \in 0..(Len(text) - Len(word)) :
        SubSeq(text, k + 1, k + Len(word)) = word

\* bool(re.search(r'\d+', text))
HasNumbers(text) == \E k \in 1..Len(text) : text[k] \in Digits

\* extracted_data: None, an empty dict, or a dict with the keys of its
\* data points
ExtractedData ==
    {[present |-> FALSE, keys |-> {}], [present |-> TRUE, keys |-> {}],
     [present |-> TRUE, keys |-> {"percentages"}]}

\* the truth value of evidence.extracted_data
Truthy(data) == data.present /\ data.keys # {}

ValidatedEvidence ==
    {[NoEvidence EXCEPT !.claim = c, !.source = s, !.extracted_data = x,
                        !.recency_score = r, !.credibility_score = d] :
        c \in SampleClaims,
        s \in {"", "unknown", "arxiv.org"},
        x \in ExtractedData,
        r \in {2, 3}, d \in {29, 30}}

\* _check_has_source
CheckHasSource(e) ==
    IF e.source = "" \/ e.source = "unknown"
    THEN <<"No valid source provided">> ELSE <<>>

\* _check_has_data
CheckHasData(e) ==
    IF ~Truthy(e.extracted_data)
       /\ ~HasNumbers(e.claim)
       /\ ~\E word \in data_words : Contains(Lower(e.claim), word)
    THEN <<"No specific data or metrics provided">> ELSE <<>>

\* _check_not_pure_opinion
CheckNotPureOpinion(e) ==
    IF \E signal \in opinion_signals : Contains(Lower(e.claim), signal)
    THEN <<"Evidence appears to be opinion-based">> ELSE <<>>

\* _check_recency: recency_score < 0.3, in tenths
CheckRecency(e) ==
    IF e.recency_score < 3 THEN <<"Evidence may be outdated">> ELSE <<>>

\* _check_credibility: credibility_score < 0.3, in hundredths
CheckCredibility(e) ==
    IF e.credibility_score < 30
    THEN <<"Source has low credibility">> ELSE <<>>

\* validate_evidence: the issues of the five rules, in the order of
\* validation_rules
ValidateEvidence(e) ==
    LET issues == CheckHasSource(e) \o CheckHasData(e)
                  \o CheckNotPureOpinion(e) \o CheckRecency(e)
                  \o CheckCredibility(e)
    IN  [returned |-> TRUE, is_valid |-> Len(issues) = 0, issues |-> issues]

\* a call of validate_evidence(evidence1)
ValidateEvidenceCall ==
    /\ epc = "validate"
    /\ validation' = ValidateEvidence(evidence1)
    /\ epc' = "validated"
    /\ UNCHANGED <<debateVars, streamVars, rateVars, searchVars, gatherVars,
                   judgeVars, evidence1, evidence2, comparison>>

InitValidate ==
    /\ InitDebateIdle
    /\ InitRateIdle
    /\ InitSearchIdle
    /\ InitGatherIdle
    /\ InitJudgeIdle
    /\ epc = "validate"
    /\ evidence1 \in ValidatedEvidence
    /\ evidence2 = NoEvidence
    /\ comparison = "none"
    /\ validation = [returned |-> FALSE]

NextValidate == ValidateEvidenceCall

SpecValidate == InitValidate /\ [][NextValidate]_vars

\* C30: validate_evidence reports 'No specific data or metrics provided'
\* exactly for a record whose claim has no digit and none of the words
\* study, report, analysis, data, whatever its extracted_data; the record is
\* valid exactly when no rule reports an issue.
C30_HasDataFromClaimAlone ==
    epc = "validated" =>
        /\ validation.returned
        /\ ("No specific data or metrics provided"
               \in Elements(validation.issues))
           <=> (/\ ~HasNumbers(evidence1.claim)
                /\ \A word \in data_words :
                      ~Contains(Lower(evidence1.claim), word))
        /\ validation.is_valid <=> validation.issues = <<>>

====
